---- MODULE Spec2Model ----
(***************************************************************************)
(* Arbitration core of git-ai-vscode: CheckpointManager decides whether a  *)
(* file change on disk is committed as a human checkpoint (debounced) or   *)
(* as an agent (AWS Q) checkpoint (immediate), from file-change events and *)
(* agent-activity pulses.  Time is the value Date.now() returns, taken to   *)
(* be non-decreasing; the Node timer queue and the executor subprocesses  *)
(* in flight are part of the state.  A timer callback runs at or after its *)
(* due time, never before.                                                 *)
(***************************************************************************)
EXTENDS Integers, Sequences, FiniteSets, TLC

VARIABLES
    now,                  \* value of Date.now()
    lastAiSignalTime,     \* CheckpointManager.lastAiSignalTime
    lastAiCheckpointTime, \* CheckpointManager.lastAiCheckpointTime
    pendingHumanTimeout,  \* CheckpointManager.pendingHumanTimeout (handle or NULL)
    pendingFile,          \* CheckpointManager.pendingFile (path or NoPath)
    scheduled,            \* Node timer queue: callbacks set, not fired, not cleared
    inflight,             \* executor subprocesses running, per kind
    aiCheckpointCount,    \* CheckpointManager.aiCheckpointCount
    humanCheckpointCount, \* CheckpointManager.humanCheckpointCount
    last,                 \* history: the step just taken and what it invoked
    cycle,                \* history: invocations made for the current debounce cycle
    lastPath,             \* history: path of the latest non-filtered file change
    lastAgentDispatch,    \* history: time of the latest agent executor invocation
    dispatched,           \* history: executor invocations made so far, per kind
    lastAgentRequest,     \* history: time of the latest call of requestAwsQCheckpoint
    recentHumanDispatch,  \* history: time of a human executor invocation made
                          \*   less than humanDebounceMs ago, else 0
    home,                 \* the platform, $SHELL and the shell rc files of the user
    watcher,              \* AwsQLogWatcher: its fields, timers and open reads
    logs,                 \* the logs directory of the editor and the log in it
    pulses,               \* history: per line of the log, the pulses it produced
    install               \* ~/.git-ai as installGlobalShim leaves it, and what
                          \*   the installation depends on

vars == <<now, lastAiSignalTime, lastAiCheckpointTime, pendingHumanTimeout,
          pendingFile, scheduled, inflight, aiCheckpointCount,
          humanCheckpointCount, last, cycle, lastPath, lastAgentDispatch,
          dispatched, lastAgentRequest, recentHumanDispatch, home,
          watcher, logs, pulses, install>>

\* what lies outside the manager
elsewhere == <<home, watcher, logs, pulses, install>>

core == <<lastAiSignalTime, lastAiCheckpointTime, pendingHumanTimeout,
          pendingFile, scheduled>>

hist == <<last, cycle, lastPath, lastAgentDispatch, dispatched,
          lastAgentRequest, recentHumanDispatch>>

----------------------------------------------------------------------------
(* Program constants *)

AI_SIGNAL_WINDOW_MS == 10000

AI_GRACE_PERIOD_MS == 5000

humanDebounceMs == 1500

AI_CHECKPOINT_THROTTLE_MS == 500

----------------------------------------------------------------------------
(* Bounds of the exploration *)

StartNow == 100000      \* Date.now() when the manager is constructed

MaxInflight == 1        \* executor subprocesses of one kind running at once

MaxCount == 1           \* cap of each success counter

MaxDispatched == MaxCount   \* the invocations made are counted up to this

MaxCalls == 2           \* the calls of configureShellPath are counted up to this

MaxLines == 2           \* lines the log holds at most

MaxReads == 2           \* read streams of the log watcher open at once

MaxAttempts == 3        \* runs of startWatching that are followed

MaxTicks == 3           \* ticks of the polling interval that are followed

MaxPulses == 2          \* the pulses of one line are counted up to this

\* the instants, in ms after StartNow, at which the clock is read
Offsets == {0, 500, 1500, 3000, 5000, 5400, 10000, 10001, 11500}

TimePoints == {StartNow + o : o \in Offsets}

----------------------------------------------------------------------------
(* Values *)

NULL == "null"              \* the null timer handle

NoPath == << >>             \* no path, no folder (null, undefined)

Handles == {"t1", "t2", "t3", "t4"}   \* the Timeout objects setTimeout returns

Kinds == {"human", "agent"}

\* vscode.workspace.workspaceFolders, as paths (sequences of segments)
workspaceFolders == << <<"ws">> >>

\* the URIs the file watcher reports that handleFileChange lets through
PlainUris ==
    { [scheme |-> "file", fsPath |-> <<"ws", "a.txt">>],
      [scheme |-> "file", fsPath |-> <<"ws", "src", "c\\d.txt">>],
      [scheme |-> "file", fsPath |-> <<"out", "x.txt">>] }

\* and those it drops, one for every test of the filter
SystemUris ==
    << [scheme |-> "file", fsPath |-> <<"ws", ".git", "HEAD">>],
       [scheme |-> "file", fsPath |-> <<"ws", ".git-ai", "log">>],
       [scheme |-> "file", fsPath |-> <<"ws", "node_modules", "m", "i.js">>],
       [scheme |-> "file", fsPath |-> <<"ws", ".DS_Store">>],
       [scheme |-> "untitled", fsPath |-> <<"ws", "a.txt">>] >>

\* the URIs the file watcher reports
Uris == PlainUris \cup {SystemUris[i] : i \in 1..Len(SystemUris)}

IsPrefix(p, q) == Len(p) <= Len(q) /\ SubSeq(q, 1, Len(p)) = p

\* vscode.workspace.getWorkspaceFolder(vscode.Uri.file(filePath))
getWorkspaceFolder(filePath) ==
    IF \E i \in 1..Len(workspaceFolders) : IsPrefix(workspaceFolders[i], filePath)
    THEN workspaceFolders[CHOOSE i \in 1..Len(workspaceFolders) :
                              IsPrefix(workspaceFolders[i], filePath)]
    ELSE NoPath

\* the anti-loop filter of handleFileChange: a directory segment .git,
\* .git-ai or node_modules, or .DS_Store anywhere in the path
IsIgnoredPath(filePath) ==
    \/ \E i \in 1..(Len(filePath) - 1) :
           filePath[i] \in {".git", ".git-ai", "node_modules"}
    \/ \E i \in 1..Len(filePath) : filePath[i] = ".DS_Store"

\* clearTimeout(handle): removes the callback if it is still scheduled
clearTimeout(handle, timers) == {t \in timers : t.id # handle}

\* a handle no live timer and no field holds
FreshHandle(timers, handle) ==
    CHOOSE h \in Handles : h # handle /\ \A t \in timers : t.id # h

IsScheduled(handle, timers) == \E t \in timers : t.id = handle

\* the file change the timer of a handle was armed for
ArmedPath(handle, timers) == (CHOOSE t \in timers : t.id = handle).path


----------------------------------------------------------------------------
(* GitAiService: what an executor invocation is called with *)

NoCall == <<>>

\* path.sep of the platform (POSIX)
pathSep == "/"

\* the characters of a file name, as far as the string operations below
\* tell them apart: a name is one piece unless it holds a backslash
Chars(name) ==
    IF name = "c\\d.txt" THEN <<"c", "\\", "d.txt">> ELSE <<name>>

\* uri.fsPath as a string: every segment preceded by path.sep
RECURSIVE fsPathString(_)
fsPathString(p) ==
    IF p = << >> THEN << >>
    ELSE <<pathSep>> \o Chars(Head(p)) \o fsPathString(Tail(p))

\* String.prototype.startsWith
startsWith(s, prefix) == IsPrefix(prefix, s)

\* String.prototype.substring(start), start counted from 0
substring(s, start) == SubSeq(s, start + 1, Len(s))

\* relPath.replace(/\\/g, '/')
replaceBackslashes(s) == [i \in 1..Len(s) |-> IF s[i] = "\\" THEN "/" ELSE s[i]]

\* checkpointAwsQ(repoDir, filePath): the arguments, the working directory
\* and the fields repo_working_dir and edited_filepaths of the hook payload
checkpointAwsQ(repoDir, filePath) ==
    LET dir == fsPathString(repoDir)
        str == fsPathString(filePath)
        cut == substring(str, Len(dir))
        relPath == IF startsWith(cut, <<pathSep>>) THEN substring(cut, 1) ELSE cut
    IN  [kind |-> "agent",
         args |-> <<"checkpoint", "agent-v1", "--hook-input">>,
         cwd |-> repoDir,
         file |-> filePath,
         repo_working_dir |-> repoDir,
         edited_filepaths |->
             IF filePath # NoPath /\ startsWith(str, dir)
             THEN << replaceBackslashes(relPath) >>
             ELSE << >>]

\* variant: no fallback to the first workspace folder
checkpointHuman_NoFallback(filePath) ==
    LET folder == IF filePath = NoPath THEN NoPath ELSE getWorkspaceFolder(filePath)
    IN  [kind |-> "human",
         args |-> <<"checkpoint">>,
         cwd |-> folder,
         file |-> filePath,
         repo_working_dir |-> NoPath,
         edited_filepaths |-> << >>]

\* checkpointHuman(filePath): `checkpoint` in the folder of filePath, and
\* runCommand falls back to the first workspace folder
checkpointHuman(filePath) ==
    LET folder == IF filePath = NoPath THEN NoPath ELSE getWorkspaceFolder(filePath)
    IN  [kind |-> "human",
         args |-> <<"checkpoint">>,
         cwd |-> IF folder # NoPath THEN folder ELSE workspaceFolders[1],
         file |-> filePath,
         repo_working_dir |-> NoPath,
         edited_filepaths |-> << >>]

\* the invocations of a step start running: one more subprocess of each kind
Spawn(calls) ==
    /\ \A i \in 1..Len(calls) : inflight[calls[i].kind] < MaxInflight
    /\ inflight' = [k \in Kinds |->
                       inflight[k] + Cardinality({i \in 1..Len(calls) : calls[i].kind = k})]

AgentCalls(calls) == {i \in 1..Len(calls) : calls[i].kind = "agent"}

HumanCalls(calls) == {i \in 1..Len(calls) : calls[i].kind = "human"}

\* the exit codes a subprocess closes with; a spawn error closes with -2
Codes == {0, 1}

\* what the child process emits: one 'close', or 'error' and then 'close'
ChildEvents ==
    { << [type |-> "close", code |-> c] >> : c \in Codes }
        \cup { << [type |-> "error", code |-> -2], [type |-> "close", code |-> -2] >> }

\* the circumstances of one runCommand call: whether the absolute path of
\* the binary is missing, the working directory it resolves (cwd or the
\* first workspace folder, NoPath when there is none), and the events of
\* the child, which is spawned only when both are found
Runs ==
    { [binaryMissing |-> TRUE, workingDir |-> w, events |-> << >>] :
          w \in {NoPath, workspaceFolders[1]} }
        \cup { [binaryMissing |-> FALSE, workingDir |-> NoPath, events |-> << >>] }
        \cup { [binaryMissing |-> FALSE, workingDir |-> workspaceFolders[1],
                events |-> e] : e \in ChildEvents }

\* variant: any 'close' resolves
OnChildEvent_AnyClose(e) ==
    IF e.type = "error" THEN "reject" ELSE "resolve"

\* the handler of one child event: resolve() or reject(..)
OnChildEvent(e) ==
    IF e.type = "error" THEN "reject"
    ELSE IF e.code = 0 THEN "resolve" ELSE "reject"

\* runCommand(args, cwd): the calls of resolve and reject it makes, in order
runCommand(run) ==
    IF run.binaryMissing THEN << "reject" >>
    ELSE IF run.workingDir = NoPath THEN << "reject" >>
    ELSE [i \in 1..Len(run.events) |-> OnChildEvent(run.events[i])]

\* a promise settles with the first call of resolve or reject
Settled(settleCalls) == Head(settleCalls)

\* the outcomes an invocation can settle with
Outcomes == {Settled(runCommand(run)) : run \in Runs}

----------------------------------------------------------------------------
(* CheckpointManager: the conditions its handlers test *)

\* variant: every file change is taken for the agent's
InAiSignalWindow_Always(t) == TRUE

\* variant: the window test written with <=
InAiSignalWindow_Inclusive(t) == t - lastAiSignalTime <= AI_SIGNAL_WINDOW_MS

\* handleFileChange: timeSinceAi < AI_SIGNAL_WINDOW_MS
InAiSignalWindow(t) == t - lastAiSignalTime < AI_SIGNAL_WINDOW_MS

\* variant: the grace period as short as the throttle
InGracePeriod_Short(t) == t - lastAiCheckpointTime < AI_CHECKPOINT_THROTTLE_MS

\* requestHumanCheckpoint / executeHumanCheckpoint: the grace period check
InGracePeriod(t) == t - lastAiCheckpointTime < AI_GRACE_PERIOD_MS

\* variant: the throttle test left out
IsThrottled_Never(t) == FALSE

\* variant: a throttle that lasts longer than the grace period
IsThrottled_LongerThanGrace(t) == t - lastAiCheckpointTime < AI_SIGNAL_WINDOW_MS

\* requestAwsQCheckpoint: the throttle
IsThrottled(t) == t - lastAiCheckpointTime < AI_CHECKPOINT_THROTTLE_MS

\* variant: the handle is nulled but clearTimeout is not called
CancelPending_LeavesTimer(handle, timers) ==
    IF handle # NULL THEN <<NULL, timers>> ELSE <<handle, timers>>

\* variant: clearTimeout is called but the handle is kept
CancelPending_KeepsHandle(handle, timers) ==
    IF handle # NULL THEN <<handle, clearTimeout(handle, timers)>>
    ELSE <<handle, timers>>

\* the cancel step: if (pendingHumanTimeout) { clearTimeout(..); .. = null }
\* from the pair <<handle, timer queue>> to the pair after it
CancelPending(handle, timers) ==
    IF handle # NULL THEN <<NULL, clearTimeout(handle, timers)>>
    ELSE <<handle, timers>>

\* variant: the path is not stored
StorePendingFile_Skip(filePath) == UNCHANGED pendingFile

\* handleFileChange: this.pendingFile = filePath
StorePendingFile(filePath) == pendingFile' = filePath

\* variant: the invocation is left for a later step
executeAwsQCheckpoint_Deferred(filePath) == NoCall

\* variant: the first workspace folder stands in for a missing one
executeAwsQCheckpoint_FallsBack(filePath) ==
    LET workspaceFolder == getWorkspaceFolder(filePath)
    IN  IF workspaceFolder # NoPath
        THEN << checkpointAwsQ(workspaceFolder, filePath) >>
        ELSE << checkpointAwsQ(workspaceFolders[1], filePath) >>

\* executeAwsQCheckpoint(filePath): the invocations it makes
executeAwsQCheckpoint(filePath) ==
    LET workspaceFolder == getWorkspaceFolder(filePath)
    IN  IF workspaceFolder # NoPath
        THEN << checkpointAwsQ(workspaceFolder, filePath) >>
        ELSE NoCall

\* variant: no human checkpoint while an agent invocation is running
executeHumanCheckpoint_WaitsForAgent(t) ==
    IF InGracePeriod(t) \/ inflight["agent"] > 0 THEN NoCall
    ELSE << checkpointHuman(pendingFile) >>

\* executeHumanCheckpoint(): the invocations it makes at time t
executeHumanCheckpoint(t) ==
    IF InGracePeriod(t) THEN NoCall
    ELSE << checkpointHuman(pendingFile) >>

\* variant: lastAiCheckpointTime is left for the completion to set
requestAwsQCheckpoint_NoStamp(filePath, handle, timers) ==
    IF IsThrottled(now)
    THEN [throttled |-> TRUE, handle |-> handle, timers |-> timers,
          calls |-> NoCall, checkpointTime |-> lastAiCheckpointTime]
    ELSE LET c == CancelPending(handle, timers)
         IN  [throttled |-> FALSE, handle |-> c[1], timers |-> c[2],
              calls |-> executeAwsQCheckpoint(filePath),
              checkpointTime |-> lastAiCheckpointTime]

\* variant: a throttle-dropped request restarts the grace period
requestAwsQCheckpoint_StampsDropped(filePath, handle, timers) ==
    IF IsThrottled(now)
    THEN [throttled |-> TRUE, handle |-> handle, timers |-> timers,
          calls |-> NoCall, checkpointTime |-> now]
    ELSE LET c == CancelPending(handle, timers)
         IN  [throttled |-> FALSE, handle |-> c[1], timers |-> c[2],
              calls |-> executeAwsQCheckpoint(filePath), checkpointTime |-> now]

\* requestAwsQCheckpoint(filePath), entered with the handle and the timer
\* queue as its caller left them: the result of the request
requestAwsQCheckpoint(filePath, handle, timers) ==
    IF IsThrottled(now)
    THEN [throttled |-> TRUE, handle |-> handle, timers |-> timers,
          calls |-> NoCall, checkpointTime |-> lastAiCheckpointTime]
    ELSE LET c == CancelPending(handle, timers)
         IN  [throttled |-> FALSE, handle |-> c[1], timers |-> c[2],
              calls |-> executeAwsQCheckpoint(filePath), checkpointTime |-> now]

\* variant: a pending timer is cancelled and no new one is armed
requestHumanCheckpoint_CancelOnly(filePath, handle, timers) ==
    IF InGracePeriod(now)
    THEN [dropped |-> TRUE, handle |-> handle, timers |-> timers]
    ELSE IF handle # NULL /\ IsScheduled(handle, timers)
    THEN [dropped |-> FALSE, handle |-> NULL,
          timers |-> clearTimeout(handle, timers)]
    ELSE LET c == CancelPending(handle, timers)
             h == FreshHandle(c[2], c[1])
         IN  [dropped |-> FALSE, handle |-> h,
              timers |-> c[2] \cup {[id |-> h, due |-> now + humanDebounceMs,
                                     path |-> filePath]}]

\* variant: the grace period check left out
requestHumanCheckpoint_NoGrace(filePath, handle, timers) ==
    LET c == CancelPending(handle, timers)
        h == FreshHandle(c[2], c[1])
    IN  [dropped |-> FALSE, handle |-> h,
         timers |-> c[2] \cup {[id |-> h, due |-> now + humanDebounceMs,
                                path |-> filePath]}]

\* variant: a new timer is armed without cancelling the pending one
requestHumanCheckpoint_NoCancel(filePath, handle, timers) ==
    IF InGracePeriod(now)
    THEN [dropped |-> TRUE, handle |-> handle, timers |-> timers]
    ELSE LET h == FreshHandle(timers, handle)
         IN  [dropped |-> FALSE, handle |-> h,
              timers |-> timers \cup {[id |-> h, due |-> now + humanDebounceMs,
                                       path |-> filePath]}]

\* variant: a restart keeps the due time of the timer it replaces
requestHumanCheckpoint_KeepsDue(filePath, handle, timers) ==
    IF InGracePeriod(now)
    THEN [dropped |-> TRUE, handle |-> handle, timers |-> timers]
    ELSE LET c == CancelPending(handle, timers)
             h == FreshHandle(c[2], c[1])
         IN  [dropped |-> FALSE, handle |-> h,
              timers |-> c[2] \cup
                  {[id |-> h,
                    due |-> IF IsScheduled(handle, timers)
                            THEN (CHOOSE t \in timers : t.id = handle).due
                            ELSE now + humanDebounceMs,
                    path |-> filePath]}]

\* variant: the timer is armed with no delay
requestHumanCheckpoint_NoDebounce(filePath, handle, timers) ==
    IF InGracePeriod(now)
    THEN [dropped |-> TRUE, handle |-> handle, timers |-> timers]
    ELSE LET c == CancelPending(handle, timers)
             h == FreshHandle(c[2], c[1])
         IN  [dropped |-> FALSE, handle |-> h,
              timers |-> c[2] \cup {[id |-> h, due |-> now, path |-> filePath]}]

\* requestHumanCheckpoint(): the result of the request
\* (filePath is the file change the timer is armed for: a label of the
\* timer, which the callback does not read)
requestHumanCheckpoint(filePath, handle, timers) ==
    IF InGracePeriod(now)
    THEN [dropped |-> TRUE, handle |-> handle, timers |-> timers]
    ELSE LET c == CancelPending(handle, timers)
             h == FreshHandle(c[2], c[1])
         IN  [dropped |-> FALSE, handle |-> h,
              timers |-> c[2] \cup {[id |-> h, due |-> now + humanDebounceMs,
                                     path |-> filePath]}]


----------------------------------------------------------------------------
(* History bookkeeping *)

\* the record of a step: the operation, its path, the branch it took,
\* whether its agent request was throttle-dropped, and the executor calls
Step(op, path, route, throttled, calls) ==
    [op |-> op, path |-> path, route |-> route, throttled |-> throttled,
     calls |-> calls]

\* a debounce cycle runs from the arming of a timer while none is scheduled
\* until that timer, or the one restarting it, has fired or been cancelled;
\* the record counts the executor invocations made for the cycle the handle
\* pendingHumanTimeout belongs to, and is kept for one step after the handle
\* is nulled; first is the path of the file change that opened the cycle
NoCycle == [human |-> 0, agent |-> 0, first |-> NoPath]

Forget(c) == IF pendingHumanTimeout = NULL THEN NoCycle ELSE c

NoRequest ==
    [throttled |-> FALSE, handle |-> NULL, timers |-> {},
     calls |-> NoCall, checkpointTime |-> 0]

Min(a, b) == IF a <= b THEN a ELSE b

\* the instants after now at which the clock is read: the next time point
\* or, after the last one, the due time of the scheduled timer
NextInstants ==
    IF \E p \in TimePoints : p > now
    THEN {p \in TimePoints : p > now}
    ELSE {t.due : t \in {u \in scheduled : u.due > now}}

\* the next instant at which the clock is read
NextInstant == CHOOSE p \in NextInstants : \A q \in NextInstants : p <= q

Record(step) ==
    /\ last' = step
    /\ lastAgentRequest' =
           IF \/ step.op = "handleFileChange" /\ step.route = "agent"
              \/ step.op = "signalAiActivity" /\ step.route # "none"
           THEN now ELSE lastAgentRequest
    /\ lastAgentDispatch' =
           IF AgentCalls(step.calls) # {} THEN now ELSE lastAgentDispatch
    /\ recentHumanDispatch' =
           IF HumanCalls(step.calls) # {} THEN now
           ELSE IF step.op = "advance"
                   /\ NextInstant - recentHumanDispatch >= humanDebounceMs
           THEN 0
           ELSE recentHumanDispatch
    /\ dispatched' =
           [k \in Kinds |->
               Min(dispatched[k]
                       + Cardinality({i \in 1..Len(step.calls) : step.calls[i].kind = k}),
                   MaxDispatched)]

----------------------------------------------------------------------------
(* GitAiService.configureShellPath: the shell rc files *)

\* the text configureShellPath looks for
ExportPath == "export PATH=\"$HOME/.git-ai/bin:$PATH\""

\* the text it appends: a string is the sequence of its pieces, the line
\* ends and the texts between them
exportLine ==
    <<"\n", "# Added by git-ai-vscode to ensure correct attribution", "\n",
      ExportPath, "\n">>

\* String.prototype.includes, for a piece of the string
includes(str, piece) == \E i \in 1..Len(str) : str[i] = piece

commonFiles == <<".zshrc", ".bash_profile", ".bashrc", ".profile">>

RcNames == {commonFiles[i] : i \in 1..Len(commonFiles)}

\* a file that does not exist, and one with the given content
NoFile == [exists |-> FALSE, content |-> << >>]

File(content) == [exists |-> TRUE, content |-> content]

\* steps 1 to 3 of configureShellPath: the rc files to update, from $SHELL,
\* else the common files that exist, else the default of the platform
rcFilesOf(h) ==
    LET byShell ==
            IF h.SHELL = << >> THEN << >>
            ELSE IF includes(h.SHELL, "zsh") THEN <<".zshrc">>
            ELSE IF includes(h.SHELL, "bash")
            THEN <<IF h.platform = "darwin" THEN ".bash_profile" ELSE ".bashrc">>
            ELSE << >>
        existing == SelectSeq(commonFiles, LAMBDA f : h.files[f].exists)
    IN  IF byShell # << >> THEN byShell
        ELSE IF existing # << >> THEN existing
        ELSE IF h.platform = "darwin" THEN <<".zshrc">> ELSE <<".bashrc">>

\* [...new Set(rcFiles)]: the first occurrence of every element
uniqueRcFiles(rcFiles) ==
    SelectSeq([i \in 1..Len(rcFiles) |->
                  IF \E j \in 1..(i - 1) : rcFiles[j] = rcFiles[i]
                  THEN "" ELSE rcFiles[i]],
              LAMBDA f : f # "")

\* variant: the export is appended without looking at the content
ConfigureRcFile_AlwaysAppends(file, writable) ==
    IF ~writable THEN [file |-> file, updated |-> FALSE]
    ELSE [file |-> File(file.content \o exportLine), updated |-> TRUE]

\* the body of the loop for one rc file: what becomes of the file, and
\* whether `updated` is set; a write to a file that cannot be written
\* throws, and the catch logs the error
ConfigureRcFile(file, writable) ==
    IF ~file.exists /\ ~writable THEN [file |-> file, updated |-> FALSE]
    ELSE IF includes(file.content, ExportPath)
    THEN [file |-> File(file.content), updated |-> FALSE]
    ELSE IF ~writable THEN [file |-> File(file.content), updated |-> FALSE]
    ELSE [file |-> File(file.content \o exportLine), updated |-> TRUE]

\* the files and the notice after one call of configureShellPath in h
configureShellPathIn(h) ==
    LET selected == uniqueRcFiles(rcFilesOf(h))
        names == {selected[i] : i \in 1..Len(selected)}
        done == [f \in names |-> ConfigureRcFile(h.files[f], f \notin h.readOnly)]
    IN  IF h.platform = "win32"
        THEN [h EXCEPT !.notice = FALSE]
        ELSE [h EXCEPT !.files = [f \in RcNames |->
                                     IF f \in names THEN done[f].file ELSE @[f]],
                       !.notice = \E f \in names : done[f].updated]

\* the home directory of the arbitration runs: linux, bash, no rc file yet
DefaultHome ==
    [platform |-> "linux", SHELL |-> <<"/bin/", "bash">>,
     files |-> [f \in RcNames |-> NoFile], readOnly |-> {},
     notice |-> FALSE, calls |-> 0]

----------------------------------------------------------------------------
(* AwsQLogWatcher: the log it looks for, and what it reads from it *)

RETRY_MS == 10000       \* startWatching: setTimeout(..., 10000)

POLL_MS == 1000         \* tailFile: setInterval(..., 1000)

\* the texts processLogContent looks for; a text is the sequence of its
\* pieces, so that a part of it is not the whole
Signals ==
    {<<"fs", "Replace">>, <<"fs", "Write">>, <<"fs", "Delete">>,
     <<"agentic", "CodeAccepted">>}

\* the lines the Amazon Q extension writes, each in one write: one that
\* reports an edit of the agent and one that does not
LogLines == {<<"fs", "Write", "\n">>, <<"x", "y", "\n">>}

\* the session directories of the logs directory, oldest first
SessionNames == <<"20240101T000000", "20240102T000000">>

\* the logs directory: whether it exists, per session directory whether it
\* is absent, holds no log of Amazon Q ("nolog") or holds one ("log"), and
\* the content of the log of the latest session
NoLogs ==
    [dir |-> FALSE, sessions |-> [s \in 1..Len(SessionNames) |-> "absent"],
     content |-> << >>]

\* sessions[0] of readdirSync(logsDir).filter(...).sort().reverse()
LatestSession(l) ==
    LET present == {s \in DOMAIN l.sessions : l.sessions[s] # "absent"}
    IN  IF present = {} THEN 0
        ELSE CHOOSE s \in present : \A u \in present : u <= s

\* findLogFile(): the log of the latest session, or null; the search
\* through window*/exthost/*amazon-q-vscode* is taken as one lookup
findLogFile(l) ==
    IF ~l.dir THEN NoPath
    ELSE IF LatestSession(l) = 0 THEN NoPath
    ELSE IF l.sessions[LatestSession(l)] = "log"
    THEN <<"logs", SessionNames[LatestSession(l)], "window1", "exthost",
           "amazonwebservices.amazon-q-vscode", "Amazon Q Logs.log">>
    ELSE NoPath

\* fs.existsSync(filePath) for the path findLogFile returned
existsSync(l, filePath) ==
    /\ filePath # NoPath
    /\ l.dir
    /\ \E s \in DOMAIN l.sessions :
           l.sessions[s] = "log" /\ filePath[2] = SessionNames[s]

\* fs.statSync(filePath).size
size(l) == Len(l.content)

\* String.prototype.split on line ends
RECURSIVE split(_)
split(str) ==
    IF \A i \in 1..Len(str) : str[i] # "\n" THEN <<str>>
    ELSE LET k == CHOOSE i \in 1..Len(str) :
                      str[i] = "\n" /\ \A j \in 1..(i - 1) : str[j] # "\n"
         IN  <<SubSeq(str, 1, k - 1)>> \o split(SubSeq(str, k + 1, Len(str)))

\* line.includes(text)
lineIncludes(line, text) ==
    \E i \in 1..(Len(line) - Len(text) + 1) :
        SubSeq(line, i, i + Len(text) - 1) = text

\* processLogContent: the test a line passes to give a pulse
IsSignalLine(line) ==
    line # << >> /\ \E text \in Signals : lineIncludes(line, text)

\* processLogContent(content): the lines of content that give a pulse, by
\* their place among the lines of content
processLogContent(content) ==
    {i \in 1..Len(split(content)) : IsSignalLine(split(content)[i])}

\* fs.createReadStream(filePath, {start, end}): the bytes from start to
\* end, both included, as far as the file reaches when it is read
createReadStream(l, start, end) ==
    SubSeq(l.content, start + 1, IF end + 1 <= size(l) THEN end + 1 ELSE size(l))

\* the line of the log that holds the byte after offset
LineAt(l, offset) ==
    1 + Cardinality({i \in 1..offset : i <= size(l) /\ l.content[i] = "\n"})

\* the watcher before startWatching has run
NoWatcher ==
    [currentLogFile |-> NoPath, currentLogSize |-> 0, intervalId |-> NULL,
     retries |-> {}, intervals |-> {}, reads |-> << >>,
     attempts |-> 0, ticks |-> 0]

\* tailFile(filePath)
tailFile(w, l, filePath, t) ==
    [w EXCEPT !.currentLogFile = filePath,
              !.currentLogSize = size(l),
              !.intervalId = "i1",
              !.intervals = @ \cup {[id |-> "i1", due |-> t + POLL_MS]}]

\* variant: a retry is scheduled whether or not the log was found
startWatching_AlwaysRetries(w, l, t) ==
    LET logFile == findLogFile(l)
        v == [w EXCEPT !.attempts = IF @ < MaxAttempts THEN @ + 1 ELSE @,
                       !.retries = @ \cup {t + RETRY_MS}]
    IN  IF logFile # NoPath THEN tailFile(v, l, logFile, t) ELSE v

\* startWatching() with the callback of findLogFile().then, at time t
startWatching(w, l, t) ==
    LET logFile == findLogFile(l)
        v == [w EXCEPT !.attempts = IF @ < MaxAttempts THEN @ + 1 ELSE @]
    IN  IF logFile # NoPath THEN tailFile(v, l, logFile, t)
        ELSE [v EXCEPT !.retries = @ \cup {t + RETRY_MS}]

\* checkLogUpdates(filePath): the fields and the open reads after a tick
checkLogUpdates(w, l) ==
    IF ~existsSync(l, w.currentLogFile) THEN w
    ELSE IF size(l) < w.currentLogSize
    THEN [w EXCEPT !.currentLogSize = size(l)]
    ELSE IF size(l) = w.currentLogSize THEN w
    ELSE [w EXCEPT !.reads = Append(@, [start |-> w.currentLogSize,
                                         end |-> size(l)])]

----------------------------------------------------------------------------
(* GitAiService: the installation of the shim *)

HomeDir == <<"home", "u">>                  \* os.homedir()

targetDir == HomeDir \o <<".git-ai", "bin">>

gitShimPath == targetDir \o <<"git">>

\* badPaths of isShimInstalled, excludePatterns of findRealGitPath
badPaths == {HomeDir \o <<".git-ai">>, HomeDir \o <<".local", "bin">>}

\* this.context.extension.packageJSON.version, and an earlier one
currentVersion == "1.2.0"

earlierVersion == "1.1.0"

\* the texts 'git-ai' and 'git-og' as far as a name of a path holds them
TextsIn(name) ==
    IF name \in {"git-ai", ".git-ai", "git-ai.exe"} THEN {"git-ai"}
    ELSE IF name = "git-og" THEN {"git-og"}
    ELSE {}

\* p.includes(text) for a path
pathIncludes(p, text) == \E i \in 1..Len(p) : text \in TextsIn(p[i])

\* path.resolve of an absolute path: '..' takes back the name before it
RECURSIVE resolveOnto(_, _)
resolveOnto(done, rest) ==
    IF rest = << >> THEN done
    ELSE IF Head(rest) = ".."
    THEN resolveOnto(SubSeq(done, 1, Len(done) - 1), Tail(rest))
    ELSE resolveOnto(Append(done, Head(rest)), Tail(rest))

resolve(p) == resolveOnto(<< >>, p)

\* the lines `which -a git` (`where git`) may print: the path, the
\* basename of fs.realpathSync(path), and whether fs.accessSync(X_OK) passes
GitAt(p, real, executable) ==
    [path |-> p, real |-> real, executable |-> executable]

UsrBinGit == GitAt(<<"usr", "bin", "git">>, "git", TRUE)

ShimGit == GitAt(gitShimPath, "git-ai", TRUE)

OldShimGit == GitAt(HomeDir \o <<".local", "bin", "git">>, "git-ai", TRUE)

LinkedGit == GitAt(<<"usr", "local", "bin", "git">>, "git-ai", TRUE)

PlainFileGit == GitAt(<<"snap", "bin", "git">>, "git", FALSE)

OgGit == GitAt(<<"opt", "git-og", "bin", "git">>, "git", TRUE)

DottedGit ==
    GitAt(HomeDir \o <<"bin", "..", ".local", "bin", "git">>, "git", TRUE)

\* what child_process.exec(cmd) gives: an error, or the lines of stdout
WhichOutputs ==
    {[err |-> TRUE, lines |-> << >>],
     [err |-> FALSE, lines |-> <<UsrBinGit>>],
     [err |-> FALSE, lines |-> <<ShimGit, UsrBinGit>>],
     [err |-> FALSE, lines |-> <<OldShimGit, LinkedGit, PlainFileGit>>],
     [err |-> FALSE, lines |-> <<OgGit, UsrBinGit>>],
     [err |-> FALSE, lines |-> <<DottedGit, UsrBinGit>>]}

\* findRealGitPath: the test a line passes to be taken
IsRealGit(line) ==
    /\ ~\E pattern \in badPaths : startsWith(line.path, pattern)
    /\ ~pathIncludes(line.path, "git-ai")
    /\ line.real \notin {"git-ai", "git-ai.exe"}
    /\ line.executable

\* findRealGitPath(): the first line that passes, or null
findRealGitPath(out) ==
    IF out.err \/ ~\E i \in 1..Len(out.lines) : IsRealGit(out.lines[i])
    THEN NoPath
    ELSE out.lines[CHOOSE i \in 1..Len(out.lines) :
                       /\ IsRealGit(out.lines[i])
                       /\ \A j \in 1..(i - 1) : ~IsRealGit(out.lines[j])].path

\* config.json: absent, not JSON, or JSON with git_path
NoConfig == [exists |-> FALSE, json |-> FALSE, git_path |-> NoPath]

BrokenConfig == [exists |-> TRUE, json |-> FALSE, git_path |-> NoPath]

Config(gitPath) == [exists |-> TRUE, json |-> TRUE, git_path |-> gitPath]

\* ~/.git-ai before anything is installed, on a machine with git in
\* /usr/bin and the binary bundled; version "" stands for no version file
NoInstall ==
    [bundled |-> TRUE, which |-> [err |-> FALSE, lines |-> <<UsrBinGit>>],
     gitAi |-> FALSE, git |-> FALSE, gitOg |-> FALSE, config |-> NoConfig,
     version |-> "", gitPathSetting |-> NoPath,
     op |-> "none", outcome |-> "none"]

\* fs.existsSync(gitShim): the link is followed
gitShimExists(d) == d.git /\ d.gitAi

\* isShimInstalled()
isShimInstalled(d) ==
    IF gitShimExists(d) /\ d.gitOg /\ d.config.exists
    THEN IF ~d.config.json THEN FALSE
         ELSE IF d.config.git_path # NoPath /\ pathIncludes(d.config.git_path, "git-og")
         THEN FALSE
         ELSE IF /\ d.config.git_path # NoPath
                 /\ \E bp \in badPaths : startsWith(resolve(d.config.git_path), bp)
         THEN FALSE
         ELSE IF d.version # "" THEN d.version = currentVersion
         ELSE FALSE
    ELSE FALSE

\* getBinaryResolution().source = 'bundled'
IsBundled(d, platform) == platform \in {"darwin", "win32"} /\ d.bundled

\* the calls of fs that may fail during installGlobalShim
Faults == {"none", "copy", "symlink", "git-og", "config", "version"}

\* installGlobalShim() up to the version file, when the call fault fails:
\* ~/.git-ai as it is left, and whether the method threw
installGlobalShim(d, platform, fault) ==
    LET realGitPath == findRealGitPath(d.which)
        threw(e) == [e EXCEPT !.outcome = "threw"]
        copied == [d EXCEPT !.gitAi = TRUE]
        unlinked == [copied EXCEPT !.git = FALSE]
        linked == [copied EXCEPT !.git = TRUE]
        wrapped == [linked EXCEPT !.gitOg = (fault # "git-og")]
        configured == [wrapped EXCEPT !.config = Config(realGitPath)]
        pointed == [configured EXCEPT !.gitPathSetting = gitShimPath]
        versioned == [pointed EXCEPT !.version = currentVersion]
    IN  IF ~IsBundled(d, platform) THEN threw(d)
        ELSE IF realGitPath = NoPath THEN threw(d)
        ELSE IF fault = "copy" THEN threw(d)
        ELSE IF fault = "symlink" THEN threw(unlinked)
        ELSE IF fault = "config" THEN threw(wrapped)
        ELSE IF fault = "version" THEN threw(pointed)
        ELSE [versioned EXCEPT !.outcome = "installed"]

----------------------------------------------------------------------------
(* Initial state: the fields as the constructor leaves them *)

\* variant: the timestamps start at the time of construction
Init_StampedNow ==
    /\ now = StartNow
    /\ lastAiSignalTime = StartNow
    /\ lastAiCheckpointTime = StartNow
    /\ pendingHumanTimeout = NULL
    /\ pendingFile = NoPath
    /\ scheduled = {}
    /\ inflight = [k \in Kinds |-> 0]
    /\ aiCheckpointCount = 0
    /\ humanCheckpointCount = 0
    /\ last = Step("init", NoPath, "none", FALSE, NoCall)
    /\ cycle = NoCycle
    /\ lastPath = NoPath
    /\ lastAgentDispatch = 0
    /\ dispatched = [k \in Kinds |-> 0]
    /\ lastAgentRequest = 0
    /\ recentHumanDispatch = 0
    /\ home = DefaultHome
    /\ watcher = NoWatcher
    /\ logs = NoLogs
    /\ pulses = << >>
    /\ install = NoInstall

Init ==
    /\ now = StartNow
    /\ lastAiSignalTime = 0
    /\ lastAiCheckpointTime = 0
    /\ pendingHumanTimeout = NULL
    /\ pendingFile = NoPath
    /\ scheduled = {}
    /\ inflight = [k \in Kinds |-> 0]
    /\ aiCheckpointCount = 0
    /\ humanCheckpointCount = 0
    /\ last = Step("init", NoPath, "none", FALSE, NoCall)
    /\ cycle = NoCycle
    /\ lastPath = NoPath
    /\ lastAgentDispatch = 0
    /\ dispatched = [k \in Kinds |-> 0]
    /\ lastAgentRequest = 0
    /\ recentHumanDispatch = 0
    /\ home = DefaultHome
    /\ watcher = NoWatcher
    /\ logs = NoLogs
    /\ pulses = << >>
    /\ install = NoInstall

----------------------------------------------------------------------------
(* Operations *)

\* the watcher reports file changes at the instants of TimePoints; after
\* the last of them the tree is quiet, and only a timer still scheduled,
\* pulses and executor completions remain
Watching == now \in TimePoints

\* the file changes reported at the current instant: any of the plain
\* ones, and of the dropped ones, which all go the same way, one, taken in
\* turn from instant to instant
ReportedUris ==
    PlainUris \cup
        {SystemUris[(Cardinality({p \in TimePoints : p < now}) % Len(SystemUris)) + 1]}

\* signalAiActivity(): what the call does to the manager
signalAiActivityCall ==
    LET hadHandle == pendingHumanTimeout # NULL
        live == IsScheduled(pendingHumanTimeout, scheduled)
        c == CancelPending(pendingHumanTimeout, scheduled)
        requested == hadHandle /\ pendingFile # NoPath
        r == IF requested
             THEN requestAwsQCheckpoint(pendingFile, c[1], c[2])
             ELSE [NoRequest EXCEPT !.handle = c[1], !.timers = c[2],
                                    !.checkpointTime = lastAiCheckpointTime]
    IN  /\ lastAiSignalTime' = now
        /\ pendingHumanTimeout' = r.handle
        /\ scheduled' = r.timers
        /\ lastAiCheckpointTime' = r.checkpointTime
        /\ Spawn(r.calls)
        /\ Record(Step("signalAiActivity",
                       IF live THEN ArmedPath(pendingHumanTimeout, scheduled)
                       ELSE pendingFile,
                       IF live THEN "upgrade"
                       ELSE IF hadHandle THEN "stale" ELSE "none",
                       r.throttled, r.calls))
        /\ cycle' = IF hadHandle
                    THEN [cycle EXCEPT !.agent = @ + Len(r.calls)]
                    ELSE NoCycle
        /\ UNCHANGED <<now, pendingFile, aiCheckpointCount,
                       humanCheckpointCount, lastPath>>

\* signalAiActivity(): an agent-activity pulse
signalAiActivity == signalAiActivityCall /\ UNCHANGED elsewhere

\* variant: the path is stored before the scheme test and the filter
handleFileChangeIgnored_StoresFile(uri) ==
    /\ Watching
    /\ (uri.scheme # "file" \/ IsIgnoredPath(uri.fsPath))
    /\ pendingFile' = uri.fsPath
    /\ Record(Step("handleFileChange", NoPath, "filtered", FALSE, NoCall))
    /\ cycle' = Forget(cycle)
    /\ UNCHANGED <<elsewhere, now, lastAiSignalTime, lastAiCheckpointTime,
                   pendingHumanTimeout, scheduled, inflight, aiCheckpointCount,
                   humanCheckpointCount, lastPath>>

\* handleFileChange(uri), dropped by the scheme test or the anti-loop filter
handleFileChangeIgnored(uri) ==
    /\ Watching
    /\ (uri.scheme # "file" \/ IsIgnoredPath(uri.fsPath))
    /\ Record(Step("handleFileChange", NoPath, "filtered", FALSE, NoCall))
    /\ cycle' = Forget(cycle)
    /\ UNCHANGED <<elsewhere, now, core, inflight, aiCheckpointCount,
                   humanCheckpointCount, lastPath>>

\* handleFileChange(uri) inside the signal window: requestAwsQCheckpoint
handleFileChangeAi(uri) ==
    LET filePath == uri.fsPath
        r == requestAwsQCheckpoint(filePath, pendingHumanTimeout, scheduled)
    IN  /\ Watching
        /\ uri.scheme = "file" /\ ~IsIgnoredPath(filePath)
        /\ InAiSignalWindow(now)
        /\ StorePendingFile(filePath)
        /\ pendingHumanTimeout' = r.handle
        /\ scheduled' = r.timers
        /\ lastAiCheckpointTime' = r.checkpointTime
        /\ Spawn(r.calls)
        /\ Record(Step("handleFileChange", filePath, "agent", r.throttled, r.calls))
        /\ cycle' = IF pendingHumanTimeout # NULL /\ ~r.throttled
                    THEN [cycle EXCEPT !.agent = @ + Len(r.calls)]
                    ELSE Forget(cycle)
        /\ lastPath' = filePath
        /\ UNCHANGED <<elsewhere, now, lastAiSignalTime, aiCheckpointCount,
                       humanCheckpointCount>>

\* handleFileChange(uri) outside the signal window: requestHumanCheckpoint
handleFileChangeHuman(uri) ==
    LET filePath == uri.fsPath
        r == requestHumanCheckpoint(filePath, pendingHumanTimeout, scheduled)
    IN  /\ Watching
        /\ uri.scheme = "file" /\ ~IsIgnoredPath(filePath)
        /\ ~InAiSignalWindow(now)
        /\ StorePendingFile(filePath)
        /\ pendingHumanTimeout' = r.handle
        /\ scheduled' = r.timers
        /\ Record(Step("handleFileChange", filePath,
                       IF r.dropped THEN "human-dropped"
                       ELSE IF scheduled = {} THEN "human-armed"
                       ELSE "human-restart",
                       FALSE, NoCall))
        /\ cycle' = IF r.dropped THEN Forget(cycle)
                    ELSE IF scheduled = {}
                    THEN [NoCycle EXCEPT !.first = filePath]
                    ELSE cycle
        /\ lastPath' = filePath
        /\ UNCHANGED <<elsewhere, now, lastAiSignalTime, lastAiCheckpointTime, inflight,
                       aiCheckpointCount, humanCheckpointCount>>

\* handleFileChange(uri), whichever way it goes
handleFileChange(uri) ==
    \/ handleFileChangeIgnored(uri)
    \/ handleFileChangeAi(uri)
    \/ handleFileChangeHuman(uri)

\* the callback of setTimeout runs: executeHumanCheckpoint()
TimerFire(t) ==
    LET calls == executeHumanCheckpoint(now)
    IN  /\ t \in scheduled
        /\ now >= t.due
        /\ scheduled' = scheduled \ {t}
        /\ Spawn(calls)
        /\ Record(Step("timerFire", pendingFile, "fire", FALSE, calls))
        /\ cycle' = [cycle EXCEPT !.human = @ + Len(calls)]
        /\ UNCHANGED <<elsewhere, now, lastAiSignalTime, lastAiCheckpointTime,
                       pendingHumanTimeout, pendingFile, aiCheckpointCount,
                       humanCheckpointCount, lastPath>>

\* variant: the grace period is restarted when the agent checkpoint succeeds
CompleteOk_StampsCompletion(kind) ==
    /\ inflight[kind] > 0
    /\ inflight' = [inflight EXCEPT ![kind] = @ - 1]
    /\ IF kind = "agent"
       THEN /\ aiCheckpointCount < MaxCount
            /\ aiCheckpointCount' = aiCheckpointCount + 1
            /\ UNCHANGED humanCheckpointCount
       ELSE /\ humanCheckpointCount < MaxCount
            /\ humanCheckpointCount' = humanCheckpointCount + 1
            /\ UNCHANGED aiCheckpointCount
    /\ lastAiCheckpointTime' = IF kind = "agent" THEN now ELSE lastAiCheckpointTime
    /\ Record(Step("completeOk", NoPath, kind, FALSE, NoCall))
    /\ cycle' = Forget(cycle)
    /\ UNCHANGED <<elsewhere, now, lastAiSignalTime, pendingHumanTimeout, pendingFile,
                   scheduled, lastPath>>

\* an executor subprocess ends with exit code 0: the promise resolves
CompleteOk(kind) ==
    /\ inflight[kind] > 0
    /\ inflight' = [inflight EXCEPT ![kind] = @ - 1]
    /\ IF kind = "agent"
       THEN /\ aiCheckpointCount < MaxCount
            /\ aiCheckpointCount' = aiCheckpointCount + 1
            /\ UNCHANGED humanCheckpointCount
       ELSE /\ humanCheckpointCount < MaxCount
            /\ humanCheckpointCount' = humanCheckpointCount + 1
            /\ UNCHANGED aiCheckpointCount
    /\ Record(Step("completeOk", NoPath, kind, FALSE, NoCall))
    /\ cycle' = Forget(cycle)
    /\ UNCHANGED <<elsewhere, now, core, lastPath>>

\* variant: a failed agent checkpoint takes lastAiCheckpointTime back
CompleteFail_RollsBack(kind) ==
    /\ inflight[kind] > 0
    /\ inflight' = [inflight EXCEPT ![kind] = @ - 1]
    /\ lastAiCheckpointTime' = IF kind = "agent" THEN 0 ELSE lastAiCheckpointTime
    /\ Record(Step("completeFail", NoPath, kind, FALSE, NoCall))
    /\ cycle' = Forget(cycle)
    /\ UNCHANGED <<elsewhere, now, lastAiSignalTime, pendingHumanTimeout, pendingFile,
                   scheduled, aiCheckpointCount, humanCheckpointCount, lastPath>>

\* variant: the counter is incremented on failure too
CompleteFail_Counts(kind) ==
    /\ inflight[kind] > 0
    /\ inflight' = [inflight EXCEPT ![kind] = @ - 1]
    /\ IF kind = "agent"
       THEN /\ aiCheckpointCount < MaxCount
            /\ aiCheckpointCount' = aiCheckpointCount + 1
            /\ UNCHANGED humanCheckpointCount
       ELSE /\ humanCheckpointCount < MaxCount
            /\ humanCheckpointCount' = humanCheckpointCount + 1
            /\ UNCHANGED aiCheckpointCount
    /\ Record(Step("completeFail", NoPath, kind, FALSE, NoCall))
    /\ cycle' = Forget(cycle)
    /\ UNCHANGED <<elsewhere, now, core, lastPath>>

\* an executor subprocess fails: the promise rejects and .catch logs it
CompleteFail(kind) ==
    /\ inflight[kind] > 0
    /\ inflight' = [inflight EXCEPT ![kind] = @ - 1]
    /\ Record(Step("completeFail", NoPath, kind, FALSE, NoCall))
    /\ cycle' = Forget(cycle)
    /\ UNCHANGED <<elsewhere, now, core, aiCheckpointCount, humanCheckpointCount,
                   lastPath>>

\* the promise of an invocation settles: .then on resolve, .catch on reject
Settle(kind, outcome) ==
    IF outcome = "resolve" THEN CompleteOk(kind) ELSE CompleteFail(kind)

\* the invocation runs as the run says and its promise settles
SettleRun(kind, run) == Settle(kind, Settled(runCommand(run)))

\* the clock advances to the next instant at which it is read
Advance ==
    /\ NextInstants # {}
    /\ now' = NextInstant
    /\ Record(Step("advance", NoPath, "none", FALSE, NoCall))
    /\ cycle' = Forget(cycle)
    /\ UNCHANGED <<elsewhere, core, inflight, aiCheckpointCount, humanCheckpointCount,
                   lastPath>>

Next ==
    \/ signalAiActivity
    \/ \E uri \in ReportedUris : handleFileChange(uri)
    \/ \E t \in scheduled : TimerFire(t)
    \/ \E kind \in Kinds, outcome \in Outcomes : Settle(kind, outcome)
    \/ Advance

Spec == Init /\ [][Next]_vars

\* the file changes of the liveness exploration: a path in the workspace
\* folder, a path outside it and a filtered path
LiveUris ==
    {uri \in Uris :
        /\ uri.scheme = "file"
        /\ uri.fsPath \in {<<"ws", "a.txt">>, <<"out", "x.txt">>,
                            <<"ws", ".git", "HEAD">>}}

LiveNext ==
    \/ signalAiActivity
    \/ \E uri \in LiveUris : handleFileChange(uri)
    \/ \E t \in scheduled : TimerFire(t)
    \/ \E kind \in Kinds, outcome \in Outcomes : Settle(kind, outcome)
    \/ Advance

\* the scheduling the event loop gives: the clock moves on, a timer that is
\* due and not cleared runs its callback, a pending promise settles
LiveSpec ==
    /\ Init /\ [][LiveNext]_vars
    /\ WF_vars(Advance)
    /\ WF_vars(\E t \in scheduled : TimerFire(t))
    /\ WF_vars(\E kind \in Kinds, outcome \in Outcomes : Settle(kind, outcome))


----------------------------------------------------------------------------
(* The shell configuration on its own *)

\* the contents an rc file starts with: none, empty, some other lines
\* (the last one not ended), and the export already there
Contents ==
    {<< >>, <<"alias ll=ls">>, <<"alias ll=ls", "\n", ExportPath, "\n">>}

RcFileStates == {NoFile} \cup {File(c) : c \in Contents}

Platforms == {"win32", "darwin", "linux"}

\* $SHELL: unset, or the path of a shell
Shells == {<< >>, <<"/bin/", "zsh">>, <<"/bin/", "bash">>, <<"/usr/bin/", "fish">>}

Homes ==
    {[platform |-> p, SHELL |-> sh,
      files |-> [f \in RcNames |->
                    IF f = ".zshrc" THEN z
                    ELSE IF f = ".bashrc" THEN b
                    ELSE IF f = ".profile" THEN pr ELSE NoFile],
      readOnly |-> ro, notice |-> FALSE, calls |-> 0] :
        p \in Platforms, sh \in Shells, z \in RcFileStates, b \in RcFileStates,
        pr \in {NoFile, File(<<"alias ll=ls">>)},
        ro \in {{}, {".zshrc"}, {".bashrc"}}}

ShellInit ==
    /\ now = StartNow
    /\ lastAiSignalTime = 0
    /\ lastAiCheckpointTime = 0
    /\ pendingHumanTimeout = NULL
    /\ pendingFile = NoPath
    /\ scheduled = {}
    /\ inflight = [k \in Kinds |-> 0]
    /\ aiCheckpointCount = 0
    /\ humanCheckpointCount = 0
    /\ last = Step("init", NoPath, "none", FALSE, NoCall)
    /\ cycle = NoCycle
    /\ lastPath = NoPath
    /\ lastAgentDispatch = 0
    /\ dispatched = [k \in Kinds |-> 0]
    /\ lastAgentRequest = 0
    /\ recentHumanDispatch = 0
    /\ home \in Homes
    /\ watcher = NoWatcher
    /\ logs = NoLogs
    /\ pulses = << >>
    /\ install = NoInstall

\* configureShellPath(): at activation, after the installation of the
\* shim, or by the command gitAi.fixShellPath
configureShellPath ==
    /\ home' = [configureShellPathIn(home) EXCEPT
                    !.calls = Min(home.calls + 1, MaxCalls)]
    /\ UNCHANGED <<install, watcher, logs, pulses, now, core, inflight,
                   aiCheckpointCount, humanCheckpointCount, hist>>

ShellNext == configureShellPath

ShellSpec == ShellInit /\ [][ShellNext]_vars

----------------------------------------------------------------------------
(* The log watcher on its own: the manager receives its pulses and nothing *)
(* else; the Amazon Q extension and the editor change the logs directory   *)

\* the logs directory as the watcher may find it when it is constructed
LogStates ==
    {NoLogs} \cup
    {[dir |-> TRUE, sessions |-> ss, content |-> c] :
        ss \in {[s \in 1..Len(SessionNames) |-> "absent"],
                [s \in 1..Len(SessionNames) |-> IF s = 1 THEN "nolog" ELSE "absent"],
                [s \in 1..Len(SessionNames) |-> IF s = 1 THEN "log" ELSE "absent"]},
        c \in {<< >>}}
    \cup
    {[dir |-> TRUE,
      sessions |-> [s \in 1..Len(SessionNames) |-> IF s = 1 THEN "log" ELSE "absent"],
      content |-> c] : c \in LogLines}

\* the lines of the log, none of which has produced a pulse
NoPulses(l) ==
    [j \in 1..(LineAt(l, size(l)) - 1) |-> [fresh |-> FALSE, n |-> 0]]

\* the state after new AwsQLogWatcher(checkpointManager): startWatching
\* has run once
WatchInit ==
    /\ now = StartNow
    /\ lastAiSignalTime = 0
    /\ lastAiCheckpointTime = 0
    /\ pendingHumanTimeout = NULL
    /\ pendingFile = NoPath
    /\ scheduled = {}
    /\ inflight = [k \in Kinds |-> 0]
    /\ aiCheckpointCount = 0
    /\ humanCheckpointCount = 0
    /\ last = Step("init", NoPath, "none", FALSE, NoCall)
    /\ cycle = NoCycle
    /\ lastPath = NoPath
    /\ lastAgentDispatch = 0
    /\ dispatched = [k \in Kinds |-> 0]
    /\ lastAgentRequest = 0
    /\ recentHumanDispatch = 0
    /\ home = DefaultHome
    /\ logs \in LogStates
    /\ watcher = startWatching(NoWatcher, logs, StartNow)
    /\ pulses = NoPulses(logs)
    /\ install = NoInstall

\* the watcher is reading the log that findLogFile finds now
IsTailing ==
    /\ watcher.intervals # {}
    /\ watcher.currentLogFile # NoPath
    /\ watcher.currentLogFile = findLogFile(logs)

\* the changes of the logs directory that discovery depends on are
\* followed while runs of startWatching are
Discovering == watcher.attempts < MaxAttempts

\* the editor creates its logs directory
MakeDirectory ==
    /\ Discovering
    /\ ~logs.dir
    /\ logs' = [logs EXCEPT !.dir = TRUE]
    /\ UNCHANGED <<install, home, watcher, pulses, now, core, inflight,
                   aiCheckpointCount, humanCheckpointCount, hist>>

\* the editor opens a session directory, later than those there; this is
\* followed until the watcher has found a log
OpenSession ==
    /\ Discovering
    /\ logs.dir
    /\ watcher.currentLogFile = NoPath
    /\ LatestSession(logs) < Len(SessionNames)
    /\ logs' = [logs EXCEPT !.sessions[LatestSession(logs) + 1] = "nolog",
                            !.content = << >>]
    /\ pulses' = << >>
    /\ UNCHANGED <<install, home, watcher, now, core, inflight,
                   aiCheckpointCount, humanCheckpointCount, hist>>

\* the Amazon Q extension creates its log in the latest session
CreateLog ==
    /\ Discovering
    /\ logs.dir
    /\ LatestSession(logs) # 0
    /\ logs.sessions[LatestSession(logs)] = "nolog"
    /\ logs' = [logs EXCEPT !.sessions[LatestSession(logs)] = "log",
                            !.content = << >>]
    /\ pulses' = << >>
    /\ UNCHANGED <<install, home, watcher, now, core, inflight,
                   aiCheckpointCount, humanCheckpointCount, hist>>

\* the log is removed
RemoveLog ==
    /\ Discovering
    /\ findLogFile(logs) # NoPath
    /\ logs' = [logs EXCEPT !.sessions[LatestSession(logs)] = "nolog",
                            !.content = << >>]
    /\ pulses' = << >>
    /\ UNCHANGED <<install, home, watcher, now, core, inflight,
                   aiCheckpointCount, humanCheckpointCount, hist>>

\* the Amazon Q extension appends a line to its log
AppendLine(line) ==
    /\ findLogFile(logs) # NoPath
    /\ Len(pulses) < MaxLines
    /\ logs' = [logs EXCEPT !.content = @ \o line]
    /\ pulses' = Append(pulses, [fresh |-> IsTailing, n |-> 0])
    /\ UNCHANGED <<install, home, watcher, now, core, inflight,
                   aiCheckpointCount, humanCheckpointCount, hist>>

\* the log is truncated
ShrinkLog ==
    /\ findLogFile(logs) # NoPath
    /\ logs.content # << >>
    /\ logs' = [logs EXCEPT !.content = << >>]
    /\ pulses' = << >>
    /\ UNCHANGED <<install, home, watcher, now, core, inflight,
                   aiCheckpointCount, humanCheckpointCount, hist>>

\* the callback of setTimeout(() => this.startWatching(), 10000) runs
RetryStartWatching ==
    \E due \in watcher.retries :
        /\ now >= due
        /\ Discovering \/ findLogFile(logs) # NoPath
        /\ watcher' = startWatching([watcher EXCEPT !.retries = @ \ {due}],
                                    logs, now)
        /\ UNCHANGED <<install, home, logs, pulses, now, core, inflight,
                       aiCheckpointCount, humanCheckpointCount, hist>>

\* the callback of setInterval runs: checkLogUpdates(filePath)
PollTick ==
    \E iv \in watcher.intervals :
        LET w == checkLogUpdates(watcher, logs)
        IN  /\ now >= iv.due
            /\ watcher.ticks < MaxTicks
            /\ Len(w.reads) <= MaxReads
            /\ watcher' =
                   [w EXCEPT !.intervals =
                                 (@ \ {iv}) \cup {[iv EXCEPT !.due = @ + POLL_MS]},
                             !.ticks = @ + 1]
            /\ UNCHANGED <<install, home, logs, pulses, now, core, inflight,
                           aiCheckpointCount, humanCheckpointCount, hist>>

\* the sequence without its i-th element
Without(seq, i) == SubSeq(seq, 1, i - 1) \o SubSeq(seq, i + 1, Len(seq))

\* stream.on('end') of the i-th open read: the size is stored and
\* processLogContent(buffer) sends a pulse for every line that matches;
\* the pulses of one read reach the manager one after the other with no
\* step between them
ReadEnd(i) ==
    LET r == watcher.reads[i]
        buffer == createReadStream(logs, r.start, r.end)
        matched == processLogContent(buffer)
        first == LineAt(logs, r.start)
    IN  /\ i \in 1..Len(watcher.reads)
        /\ existsSync(logs, watcher.currentLogFile)
        /\ watcher' = [watcher EXCEPT !.currentLogSize = r.end,
                                      !.reads = Without(@, i)]
        /\ pulses' =
               [j \in 1..Len(pulses) |->
                   IF (j - first + 1) \in matched
                   THEN [pulses[j] EXCEPT !.n = Min(@ + 1, MaxPulses)]
                   ELSE pulses[j]]
        /\ IF matched # {}
           THEN signalAiActivityCall
           ELSE UNCHANGED <<now, core, inflight, aiCheckpointCount,
                            humanCheckpointCount, hist>>
        /\ UNCHANGED <<install, home, logs>>

\* stream.on('error') of the i-th open read: the log is gone
ReadError(i) ==
    /\ i \in 1..Len(watcher.reads)
    /\ ~existsSync(logs, watcher.currentLogFile)
    /\ watcher' = [watcher EXCEPT !.reads = Without(@, i)]
    /\ UNCHANGED <<install, home, logs, pulses, now, core, inflight,
                   aiCheckpointCount, humanCheckpointCount, hist>>

\* the due times of the timers of the watcher that are followed
WatchDues ==
    {due \in watcher.retries : Discovering \/ findLogFile(logs) # NoPath}
        \cup {iv.due : iv \in {u \in watcher.intervals : watcher.ticks < MaxTicks}}

\* time passes until the next timer of the watcher is due
WatchAdvance ==
    /\ WatchDues # {}
    /\ \A due \in WatchDues : due > now
    /\ now' = CHOOSE due \in WatchDues : \A other \in WatchDues : due <= other
    /\ UNCHANGED <<elsewhere, core, inflight, aiCheckpointCount,
                   humanCheckpointCount, hist>>

WatchNext ==
    \/ MakeDirectory
    \/ OpenSession
    \/ CreateLog
    \/ RemoveLog
    \/ \E line \in LogLines : AppendLine(line)
    \/ ShrinkLog
    \/ RetryStartWatching
    \/ PollTick
    \/ \E i \in 1..MaxReads : ReadEnd(i)
    \/ \E i \in 1..MaxReads : ReadError(i)
    \/ WatchAdvance

WatchSpec == WatchInit /\ [][WatchNext]_vars

\* the event loop runs a timer callback that is due, and time passes
WatchLiveSpec ==
    /\ WatchInit
    /\ [][WatchNext]_vars
    /\ WF_vars(WatchAdvance)
    /\ WF_vars(RetryStartWatching)

----------------------------------------------------------------------------
(* The installation on its own: activations of the extension and the      *)
(* command gitAi.installShim, on machines of every platform                *)

\* ~/.git-ai as an activation may find it: nothing installed, installed by
\* this version or by an earlier one, or a config that is no JSON
InstallStates ==
    {[NoInstall EXCEPT !.bundled = b, !.which = w] :
        b \in BOOLEAN, w \in WhichOutputs}
    \cup
    {[NoInstall EXCEPT !.which = w, !.gitAi = TRUE, !.git = TRUE,
                       !.gitOg = TRUE, !.config = c, !.version = v,
                       !.gitPathSetting = gitShimPath] :
        w \in WhichOutputs,
        c \in {Config(UsrBinGit.path), Config(<<"git-og">>), BrokenConfig},
        v \in {currentVersion, earlierVersion, ""}}

InstallInit ==
    /\ now = StartNow
    /\ lastAiSignalTime = 0
    /\ lastAiCheckpointTime = 0
    /\ pendingHumanTimeout = NULL
    /\ pendingFile = NoPath
    /\ scheduled = {}
    /\ inflight = [k \in Kinds |-> 0]
    /\ aiCheckpointCount = 0
    /\ humanCheckpointCount = 0
    /\ last = Step("init", NoPath, "none", FALSE, NoCall)
    /\ cycle = NoCycle
    /\ lastPath = NoPath
    /\ lastAgentDispatch = 0
    /\ dispatched = [k \in Kinds |-> 0]
    /\ lastAgentRequest = 0
    /\ recentHumanDispatch = 0
    /\ home \in {[DefaultHome EXCEPT !.platform = p] : p \in Platforms}
    /\ watcher = NoWatcher
    /\ logs = NoLogs
    /\ pulses = << >>
    /\ install \in InstallStates

\* the callback activate() sets for one second after activation:
\* isShimInstalled, then installGlobalShim and configureShellPath, or
\* checkAndConfigureGitPath and configureShellPath
Activate(fault) ==
    LET done == installGlobalShim(install, home.platform, fault)
    IN  /\ IF ~isShimInstalled(install)
           THEN /\ install' = [done EXCEPT !.op = "activate"]
                /\ home' = IF done.outcome = "installed"
                           THEN configureShellPathIn(configureShellPathIn(home))
                           ELSE home
           ELSE /\ fault = "none"
                /\ install' = [install EXCEPT !.gitPathSetting = gitShimPath,
                                              !.op = "activate",
                                              !.outcome = "skipped"]
                /\ home' = configureShellPathIn(home)
        /\ UNCHANGED <<watcher, logs, pulses, now, core, inflight,
                       aiCheckpointCount, humanCheckpointCount, hist>>

\* the command gitAi.installShim, confirmed by the user
InstallShimCommand(fault) ==
    LET done == installGlobalShim(install, home.platform, fault)
    IN  /\ install' = [done EXCEPT !.op = "command"]
        /\ home' = IF done.outcome = "installed"
                   THEN configureShellPathIn(home) ELSE home
        /\ UNCHANGED <<watcher, logs, pulses, now, core, inflight,
                       aiCheckpointCount, humanCheckpointCount, hist>>

InstallNext ==
    \/ \E fault \in Faults : Activate(fault)
    \/ \E fault \in Faults : InstallShimCommand(fault)

InstallSpec == InstallInit /\ [][InstallNext]_vars

----------------------------------------------------------------------------
(* Properties *)

HumanRoutes == {"human-dropped", "human-armed", "human-restart"}

IsPulse == last.op = "signalAiActivity"

IsFileChange == last.op = "handleFileChange" /\ last.route # "filtered"

\* C1 (no double commit, the upper half of "exactly one"): the executor
\* invocations made for one debounce cycle, human and agent together, never
\* number more than one; in particular a cycle never gets both a human and
\* an agent checkpoint.
C1_NoDoubleCommit == cycle.human + cycle.agent <= 1

C3_IdempotentPulse ==
    [][ (last'.op = "signalAiActivity" /\ scheduled = {}) =>
            /\ last'.calls = NoCall
            /\ lastAiSignalTime' = now
            /\ UNCHANGED <<pendingHumanTimeout, pendingFile,
                           lastAiCheckpointTime, scheduled>> ]_vars

\* C4 (grace period suppression): no human checkpoint is dispatched less
\* than AI_GRACE_PERIOD_MS after lastAiCheckpointTime; a file change that
\* takes the human path inside the grace period is dropped (and only then):
\* it dispatches nothing, and no timer is scheduled at any instant inside
\* the grace period, so nothing is deferred.
C4_GraceSuppression ==
    /\ HumanCalls(last.calls) # {} =>
           now - lastAiCheckpointTime >= AI_GRACE_PERIOD_MS
    /\ now - lastAiCheckpointTime < AI_GRACE_PERIOD_MS => scheduled = {}
    /\ (IsFileChange /\ last.route \in HumanRoutes) =>
           /\ last.route = "human-dropped"
                  <=> now - lastAiCheckpointTime < AI_GRACE_PERIOD_MS
           /\ last.calls = NoCall

C4_Witness ==
    /\ IsFileChange /\ last.route = "human-dropped"
    /\ now - lastAiCheckpointTime < AI_GRACE_PERIOD_MS
    /\ now - lastAiCheckpointTime >= AI_CHECKPOINT_THROTTLE_MS
    /\ pendingHumanTimeout = NULL

\* C5 (window rule and expiry): a non-filtered file change takes the agent
\* path exactly when now - lastAiSignalTime < AI_SIGNAL_WINDOW_MS; from
\* AI_SIGNAL_WINDOW_MS on it takes the human path and dispatches no agent
\* checkpoint.
C5_WindowRule ==
    IsFileChange =>
        /\ last.route = "agent" <=> now - lastAiSignalTime < AI_SIGNAL_WINDOW_MS
        /\ now - lastAiSignalTime >= AI_SIGNAL_WINDOW_MS =>
               /\ last.route \in HumanRoutes
               /\ AgentCalls(last.calls) = {}

\* a pulse at t0 and the file change at t0 + AI_SIGNAL_WINDOW_MS + 1
C5_Witness ==
    /\ IsFileChange /\ last.route = "human-armed"
    /\ lastAiSignalTime >= StartNow
    /\ now - lastAiSignalTime = AI_SIGNAL_WINDOW_MS + 1

\* C6 (throttle): two agent checkpoint invocations are never dispatched
\* less than AI_CHECKPOINT_THROTTLE_MS apart; an agent checkpoint request
\* made less than AI_CHECKPOINT_THROTTLE_MS after lastAiCheckpointTime is
\* dropped: no executor call, no change of the timestamps, the timer, the
\* executor or the counters.
C6_Throttle ==
    [][ /\ (AgentCalls(last'.calls) # {} /\ lastAgentDispatch # 0) =>
               now - lastAgentDispatch >= AI_CHECKPOINT_THROTTLE_MS
        /\ (last'.op = "handleFileChange" /\ last'.route = "agent") =>
               (last'.throttled
                    <=> now - lastAiCheckpointTime < AI_CHECKPOINT_THROTTLE_MS)
        /\ last'.throttled =>
               /\ last'.calls = NoCall
               /\ UNCHANGED <<lastAiSignalTime, lastAiCheckpointTime,
                              pendingHumanTimeout, scheduled, inflight,
                              aiCheckpointCount, humanCheckpointCount>> ]_vars

\* two file changes inside the window, the second throttle-dropped
C6_Witness ==
    /\ last.op = "handleFileChange" /\ last.route = "agent" /\ last.throttled
    /\ lastAgentDispatch = lastAiCheckpointTime
    /\ now - lastAgentDispatch < AI_CHECKPOINT_THROTTLE_MS

\* C7: at most one debounce callback is scheduled at any instant.
C7_AtMostOneTimer == Cardinality(scheduled) <= 1

\* a file change re-arms the timer while one is pending
C7_Witness ==
    /\ IsFileChange /\ last.route = "human-restart"
    /\ Cardinality(scheduled) = 1

\* C8: pendingHumanTimeout is non-null exactly when a human-checkpoint
\* callback is scheduled and has not yet run.
C8_HandleIsPendingFlag == (pendingHumanTimeout # NULL) <=> (scheduled # {})

\* C9 (idempotent cancel): the cancel step executed while no timer is
\* scheduled changes nothing, and cancelling twice leaves the state that
\* cancelling once leaves: a null handle and no callback scheduled.
C9_IdempotentCancel ==
    LET c == CancelPending(pendingHumanTimeout, scheduled)
    IN  /\ scheduled = {} => c = <<pendingHumanTimeout, scheduled>>
        /\ CancelPending(c[1], c[2]) = c
        /\ c = <<NULL, {}>>

InsideControlDirectory(filePath) ==
    \E i \in 1..(Len(filePath) - 1) :
        filePath[i] \in {".git", ".git-ai", "node_modules"}

IsFilteredEvent(uri) ==
    \/ uri.scheme # "file"
    \/ InsideControlDirectory(uri.fsPath)
    \/ uri.fsPath # NoPath /\ uri.fsPath[Len(uri.fsPath)] = ".DS_Store"

\* C11 (filtered events are invisible): handleFileChange for a filtered
\* event leaves lastAiSignalTime, lastAiCheckpointTime, pendingHumanTimeout
\* and pendingFile unchanged, arms and cancels no timer, and dispatches no
\* checkpoint.
C11_FilteredInvisible ==
    [][ \/ /\ UNCHANGED <<lastAiSignalTime, lastAiCheckpointTime,
                           pendingHumanTimeout, pendingFile, scheduled>>
           /\ UNCHANGED <<inflight, dispatched>>
           /\ last'.calls = NoCall
        \/ last'.op # "handleFileChange"
        \/ ~\E uri \in Uris : IsFilteredEvent(uri) /\ handleFileChange(uri)
      ]_vars

\* a filtered event arrives while a debounce timer is pending
C11_Witness ==
    /\ last.op = "handleFileChange" /\ last.route = "filtered"
    /\ scheduled # {} /\ pendingFile # NoPath
    /\ now < (CHOOSE t \in scheduled : TRUE).due

\* a non-filtered file change that neither the throttle nor the grace
\* period dropped
IsAcceptedFileChange ==
    IsFileChange /\ ~last.throttled /\ last.route # "human-dropped"

\* an agent checkpoint request that passed the throttle for a path in no
\* workspace folder: it invokes no executor
IsSkippedOutsideWorkspace ==
    /\ \/ IsFileChange /\ last.route = "agent"
       \/ IsPulse /\ last.route = "upgrade"
    /\ ~last.throttled
    /\ getWorkspaceFolder(last.path) = NoPath

Counter(kind) ==
    IF kind = "agent" THEN aiCheckpointCount ELSE humanCheckpointCount

\* the success counters after the step
CounterAfter(kind) ==
    IF kind = "agent" THEN aiCheckpointCount' ELSE humanCheckpointCount'

\* the step settles an invocation of the kind with the outcome
SettlesWith(kind, outcome) ==
    /\ inflight'[kind] = inflight[kind] - 1
    /\ outcome \in Outcomes
    /\ Settle(kind, outcome)

\* the step settles an invocation
IsSettle == \E kind \in Kinds, outcome \in Outcomes : Settle(kind, outcome)

\* C13 (failure semantics): a failed invocation is not dispatched again,
\* lastAiCheckpointTime is not rolled back and neither success counter is
\* incremented; a successful one differs only by the increment of the
\* counter of its kind.
C13_FailureSemantics ==
    [][ \A kind \in Kinds :
            /\ SettlesWith(kind, "reject") =>
                   /\ last'.calls = NoCall
                   /\ dispatched' = dispatched
                   /\ inflight' = [inflight EXCEPT ![kind] = @ - 1]
                   /\ UNCHANGED <<lastAiSignalTime, lastAiCheckpointTime,
                                  pendingHumanTimeout, pendingFile, scheduled>>
                   /\ UNCHANGED <<aiCheckpointCount, humanCheckpointCount>>
            /\ SettlesWith(kind, "resolve") =>
                   /\ last'.calls = NoCall
                   /\ dispatched' = dispatched
                   /\ inflight' = [inflight EXCEPT ![kind] = @ - 1]
                   /\ UNCHANGED <<lastAiSignalTime, lastAiCheckpointTime,
                                  pendingHumanTimeout, pendingFile, scheduled>>
                   /\ \A k \in Kinds :
                          CounterAfter(k) = Counter(k) + (IF k = kind THEN 1 ELSE 0)
      ]_vars

\* an agent invocation has failed: the grace period it started still runs
C13_Witness ==
    /\ last.op = "completeFail" /\ last.route = "agent"
    /\ inflight["agent"] = 0 /\ aiCheckpointCount = 0
    /\ lastAiCheckpointTime = lastAgentDispatch /\ lastAgentDispatch # 0
    /\ now - lastAiCheckpointTime < AI_GRACE_PERIOD_MS

\* C14 (completions never feed back into arbitration): the .then or .catch
\* of an invocation, whatever its outcome, leaves lastAiSignalTime,
\* lastAiCheckpointTime, pendingHumanTimeout, pendingFile and the timer
\* queue unchanged and dispatches nothing (the steps that take an
\* invocation out of flight are exactly these); the steps that do change
\* the arbitration state or dispatch are file changes, pulses and timer
\* callbacks only.
C14_NoFeedback ==
    [][ /\ (last'.op \in {"completeOk", "completeFail"}) =>
               /\ IsSettle
               /\ UNCHANGED <<lastAiSignalTime, lastAiCheckpointTime,
                              pendingHumanTimeout, pendingFile, scheduled>>
               /\ last'.calls = NoCall
        /\ (inflight' # inflight /\ last'.calls = NoCall) =>
               last'.op \in {"completeOk", "completeFail"}
        /\ (\/ <<lastAiSignalTime, lastAiCheckpointTime, pendingHumanTimeout,
                  pendingFile, scheduled>>' #
                    <<lastAiSignalTime, lastAiCheckpointTime,
                      pendingHumanTimeout, pendingFile, scheduled>>
            \/ last'.calls # NoCall) =>
               last'.op \in {"handleFileChange", "signalAiActivity", "timerFire"}
      ]_vars

\* after a human checkpoint has failed, a file change is arbitrated and
\* dispatches an agent checkpoint
C14_Witness ==
    /\ IsFileChange /\ AgentCalls(last.calls) # {}
    /\ dispatched["human"] > 0 /\ inflight["human"] = 0
    /\ humanCheckpointCount = 0

\* C15 (counters count successes only): a counter changes only in the step
\* in which an invocation of its kind settles successfully, and then by
\* exactly one; so it never decreases and never exceeds the number of
\* invocations of its kind dispatched so far.
C15_CountersCountSuccesses ==
    [][ \A kind \in Kinds :
            /\ CounterAfter(kind) # Counter(kind) =>
                   /\ CounterAfter(kind) = Counter(kind) + 1
                   /\ SettlesWith(kind, "resolve")
                   /\ inflight[kind] > 0
            /\ \/ CounterAfter(kind) = Counter(kind) + 1
               \/ ~SettlesWith(kind, "resolve")
            /\ CounterAfter(kind) >= Counter(kind)
            /\ CounterAfter(kind) <= dispatched'[kind]
      ]_vars

\* one invocation of each kind has succeeded
C15_Witness ==
    /\ aiCheckpointCount = 1 /\ humanCheckpointCount = 1
    /\ dispatched["agent"] >= 1 /\ dispatched["human"] >= 1

\* the child of the run closes with exit code 0
ClosesWithZero(run) ==
    \E i \in 1..Len(run.events) :
        run.events[i].type = "close" /\ run.events[i].code = 0

\* C16 (executor outcome contract): every invocation settles with one
\* outcome, the first call of resolve or reject; it is success exactly when
\* the child closes with exit code 0, and failure for any other exit code,
\* a spawn error, a missing binary or a missing working directory; the
\* failure ends in .catch, which changes nothing in the manager.
C16_OutcomeContract ==
    [][ \A kind \in Kinds, run \in Runs :
            (inflight'[kind] = inflight[kind] - 1 /\ SettleRun(kind, run)) =>
                /\ Len(runCommand(run)) >= 1
                /\ (last'.op = "completeOk") <=> ClosesWithZero(run)
                /\ (last'.op = "completeFail") <=> ~ClosesWithZero(run)
                /\ (CounterAfter(kind) = Counter(kind) + 1) <=> ClosesWithZero(run)
                /\ (run.binaryMissing \/ run.workingDir = NoPath
                        \/ \E i \in 1..Len(run.events) :
                               \/ run.events[i].type = "error"
                               \/ run.events[i].code # 0) =>
                       /\ last'.op = "completeFail"
                       /\ UNCHANGED <<core, aiCheckpointCount, humanCheckpointCount>>
      ]_vars

\* a human invocation has failed and the manager goes on
C16_Witness ==
    /\ last.op = "completeFail" /\ last.route = "human"
    /\ dispatched["human"] > 0 /\ inflight["human"] = 0
    /\ humanCheckpointCount = 0 /\ pendingHumanTimeout # NULL

\* C17 (cancellation is total): every scheduled callback belongs to the
\* handle pendingHumanTimeout holds, so a timer whose handle was dropped by
\* a cancellation is no longer scheduled and its callback never runs; a
\* human checkpoint is dispatched only by the callback of such a live
\* timer; and a pulse takes its cancel-and-upgrade branch only for a timer
\* whose callback has not run, so that firing and cancellation never both
\* take effect for one timer.
C17_CancellationTotal ==
    [][ /\ \A t \in scheduled' : t.id = pendingHumanTimeout'
        /\ (pendingHumanTimeout # NULL /\ pendingHumanTimeout' # pendingHumanTimeout)
               => ~IsScheduled(pendingHumanTimeout, scheduled')
        /\ HumanCalls(last'.calls) # {} =>
               /\ last'.op = "timerFire"
               /\ \E t \in scheduled :
                      t.id = pendingHumanTimeout /\ scheduled' = scheduled \ {t}
        /\ (last'.op = "signalAiActivity" /\ pendingHumanTimeout # NULL) =>
               IsScheduled(pendingHumanTimeout, scheduled)
      ]_vars

C19_InitialState ==
    /\ (/\ pendingHumanTimeout = NULL /\ scheduled = {}
        /\ pendingFile = NoPath
        /\ lastAiSignalTime = 0 /\ lastAiCheckpointTime = 0)
    /\ [][ \A uri \in Uris :
               (/\ lastPath = NoPath /\ lastAiSignalTime = 0
                /\ ~IsFilteredEvent(uri)
                /\ handleFileChange(uri)) =>
                   /\ last'.route = "human-armed"
                   /\ last'.calls = NoCall
                   /\ pendingHumanTimeout' # NULL
                   /\ pendingFile' = uri.fsPath
                   /\ scheduled' = {[id |-> pendingHumanTimeout',
                                     due |-> now + humanDebounceMs,
                                     path |-> uri.fsPath]} ]_vars

\* the first file change arrives in the millisecond of the construction
C19_Witness ==
    /\ IsFileChange /\ last.route = "human-armed"
    /\ now = StartNow
    /\ lastAiSignalTime = 0 /\ lastAiCheckpointTime = 0
    /\ Cardinality(scheduled) = 1

RECURSIVE WithForwardSlashes(_)
WithForwardSlashes(p) ==
    IF p = << >> THEN << >>
    ELSE IF Len(p) = 1 THEN Chars(Head(p))
    ELSE Chars(Head(p)) \o <<"/">> \o WithForwardSlashes(Tail(p))

\* the path of f relative to the folder r that contains it
RelativePath(r, f) == SubSeq(f, Len(r) + 1, Len(f))

\* the agent invocation c has the working directory and the payload C21
\* describes
HasAgentPayload(c) ==
    LET r == getWorkspaceFolder(c.file)
    IN  /\ r # NoPath
        /\ c.cwd = r
        /\ c.repo_working_dir = r
        /\ c.edited_filepaths = << WithForwardSlashes(RelativePath(r, c.file)) >>
        /\ c.edited_filepaths # << >>

\* C21 (agent payload and working directory): every agent invocation, for
\* a file f inside workspace folder r, has working directory r and a
\* payload whose repo_working_dir is r and whose edited_filepaths is the
\* one-element list holding the path of f relative to r, without leading
\* separator and written with forward slashes; the list is not empty,
\* since f starts with r.
C21_AgentPayload ==
    \A i \in AgentCalls(last.calls) : HasAgentPayload(last.calls[i])

\* the part of C21 that holds: the working directory and repo_working_dir
\* of every agent invocation, and edited_filepaths for a file whose names
\* hold no backslash
C21_AgentPayloadPlainNames ==
    \A i \in AgentCalls(last.calls) :
        LET c == last.calls[i]
            r == getWorkspaceFolder(c.file)
        IN  /\ r # NoPath /\ c.cwd = r /\ c.repo_working_dir = r
            /\ Len(c.edited_filepaths) = 1
            /\ (\A k \in 1..Len(c.file) : Chars(c.file[k]) = <<c.file[k]>>)
                   => HasAgentPayload(c)


\* the step just taken made an agent checkpoint request that passed the
\* throttle: from a file change inside the signal window, or from a pulse
\* that found the handle set
IsPassedAgentRequest ==
    /\ \/ IsFileChange /\ last.route = "agent"
       \/ IsPulse /\ last.route # "none"
    /\ ~last.throttled

C24_DebounceRestart ==
    [][ /\ (last'.op = "handleFileChange" /\ last'.route \in HumanRoutes
                /\ now - lastAiCheckpointTime >= AI_GRACE_PERIOD_MS) =>
               /\ last'.route \in {"human-armed", "human-restart"}
               /\ last'.calls = NoCall
               /\ scheduled' = {[id |-> pendingHumanTimeout',
                                 due |-> now + humanDebounceMs,
                                 path |-> pendingFile']}
        /\ HumanCalls(last'.calls) # {} =>
               /\ Len(last'.calls) = 1
               /\ last'.op = "timerFire"
               /\ \E t \in scheduled : now >= t.due /\ scheduled' = scheduled \ {t}
               /\ scheduled' = {}
        /\ cycle'.human <= 1
      ]_vars

\* a second file change restarts the debounce of the first
C24_Witness ==
    /\ IsFileChange /\ last.route = "human-restart"
    /\ cycle.first # NoPath /\ cycle.first # last.path
    /\ now > StartNow
    /\ \A t \in scheduled : t.due = now + humanDebounceMs
    /\ scheduled # {}


\* the number of times the export text occurs in a string
Occurrences(str) == Cardinality({i \in 1..Len(str) : str[i] = ExportPath})

\* the rc files a call of configureShellPath in h selects
Selected(h) ==
    IF h.platform = "win32" THEN {}
    ELSE {rcFilesOf(h)[i] : i \in 1..Len(rcFilesOf(h))}

\* C25 as claimed: after a call of configureShellPath every selected rc
\* file that did not contain the export contains it exactly once, and an
\* rc file that contained it is unchanged; a call in which every selected
\* file already contained it shows no notice.
C25_ConfigureAlwaysAppends ==
    [][ \A f \in Selected(home) :
            /\ Occurrences(home.files[f].content) = 0 =>
                   /\ home'.files[f].exists
                   /\ Occurrences(home'.files[f].content) = 1
            /\ Occurrences(home.files[f].content) > 0 =>
                   home'.files[f] = home.files[f]
      ]_vars

\* C25 as amended: configureShellPath is idempotent.  A call appends the
\* export, once, to every selected rc file whose content does not include
\* it and which can be written (creating the file when it does not
\* exist); it leaves a selected file that includes the export, a file that
\* cannot be written and every file not selected as they are; it shows the
\* notice exactly when it appended to some file; and a further call in the
\* state it leaves changes no file and shows no notice.
C25_ConfigureIdempotent ==
    [][ /\ \A f \in Selected(home) :
               IF Occurrences(home.files[f].content) = 0 /\ f \notin home.readOnly
               THEN /\ home'.files[f] = File(home.files[f].content \o exportLine)
                    /\ Occurrences(home'.files[f].content) = 1
                    /\ home'.notice
               ELSE /\ home'.files[f].content = home.files[f].content
                    /\ Occurrences(home'.files[f].content) <= 1
                    /\ home'.files[f].exists =
                           (home.files[f].exists \/ f \notin home.readOnly)
        /\ \A f \in RcNames \ Selected(home) : home'.files[f] = home.files[f]
        /\ home'.notice =
               \E f \in Selected(home) :
                   Occurrences(home.files[f].content) = 0 /\ f \notin home.readOnly
        /\ configureShellPathIn(home').files = home'.files
        /\ ~configureShellPathIn(home').notice
        /\ \A f \in RcNames : Occurrences(home'.files[f].content) <= 1
      ]_vars

\* a second call finds the export the first call appended to a file it
\* created: nothing changes and no notice is shown
C25_Witness ==
    /\ home.calls = 2 /\ ~home.notice
    /\ home.SHELL = << >> /\ home.platform = "linux"
    /\ home.files[".bashrc"] = File(exportLine)
    /\ \A f \in RcNames \ {".bashrc"} : ~home.files[f].exists


\* C26 as claimed: while a debounce timer is scheduled lastAiCheckpointTime
\* does not change and now - lastAiCheckpointTime >= AI_GRACE_PERIOD_MS; so
\* the grace check of the callback never suppresses, and every timer that
\* fires dispatches a human checkpoint at least AI_GRACE_PERIOD_MS +
\* humanDebounceMs after the last agent checkpoint request.
C26_FireLongAfterAnyRequest ==
    [][ /\ (scheduled # {} /\ scheduled' # {}) =>
               lastAiCheckpointTime' = lastAiCheckpointTime
        /\ scheduled' # {} => now' - lastAiCheckpointTime' >= AI_GRACE_PERIOD_MS
        /\ last'.op = "timerFire" =>
               /\ HumanCalls(last'.calls) # {}
               /\ lastAgentRequest # 0 =>
                      now - lastAgentRequest >= AI_GRACE_PERIOD_MS + humanDebounceMs
      ]_vars

\* C26 as amended: while a debounce timer is scheduled lastAiCheckpointTime
\* does not change and now - lastAiCheckpointTime >= AI_GRACE_PERIOD_MS; so
\* the grace check of the callback never suppresses, and every timer that
\* fires dispatches a human checkpoint at least AI_GRACE_PERIOD_MS +
\* humanDebounceMs after the last agent checkpoint request that passed the
\* throttle (lastAiCheckpointTime), and more than that less
\* AI_CHECKPOINT_THROTTLE_MS after the last agent checkpoint request of any
\* kind.
C26_FireLongAfterPassedRequest ==
    [][ /\ (scheduled # {} /\ scheduled' # {}) =>
               lastAiCheckpointTime' = lastAiCheckpointTime
        /\ scheduled' # {} => now' - lastAiCheckpointTime' >= AI_GRACE_PERIOD_MS
        /\ last'.op = "timerFire" =>
               /\ HumanCalls(last'.calls) # {}
               /\ ~InGracePeriod(now)
               /\ now - lastAiCheckpointTime >= AI_GRACE_PERIOD_MS + humanDebounceMs
               /\ lastAgentRequest # 0 =>
                      now - lastAgentRequest >
                          AI_GRACE_PERIOD_MS + humanDebounceMs
                              - AI_CHECKPOINT_THROTTLE_MS
      ]_vars

\* the timer armed at the end of the grace period fires when it is due
C26_Witness ==
    /\ last.op = "timerFire" /\ HumanCalls(last.calls) # {}
    /\ lastAiCheckpointTime > 0
    /\ lastAgentRequest = lastAiCheckpointTime
    /\ now - lastAiCheckpointTime = AI_GRACE_PERIOD_MS + humanDebounceMs


\* C27 (the throttle never swallows a preemption): with
\* AI_CHECKPOINT_THROTTLE_MS <= AI_GRACE_PERIOD_MS, an agent checkpoint
\* request is throttle-dropped only in a step that starts and ends with no
\* debounce timer scheduled; a pulse that finds the handle set cancels and
\* makes an agent checkpoint request that passes the throttle, in
\* particular when it cancels a timer that has not fired.
C27_ThrottleNeverSwallows ==
    /\ AI_CHECKPOINT_THROTTLE_MS <= AI_GRACE_PERIOD_MS
    /\ [][ /\ last'.throttled =>
                  /\ scheduled = {} /\ scheduled' = {}
                  /\ last'.op = "handleFileChange"
           /\ (last'.op = "signalAiActivity" /\ pendingHumanTimeout # NULL) =>
                  /\ ~last'.throttled
                  /\ lastAgentRequest' = now
                  /\ lastAiCheckpointTime' = now
                  /\ pendingHumanTimeout' = NULL /\ scheduled' = {}
           /\ (last'.op = "signalAiActivity" /\ scheduled' # scheduled) =>
                  /\ last'.route = "upgrade"
                  /\ ~last'.throttled
         ]_vars

\* a pulse upgrades a pending timer as soon as a timer can be pending after
\* an agent checkpoint: AI_GRACE_PERIOD_MS after it
C27_Witness ==
    /\ IsPulse /\ last.route = "upgrade" /\ ~last.throttled
    /\ lastAgentDispatch # 0
    /\ now - lastAgentDispatch = AI_GRACE_PERIOD_MS
    /\ lastAiCheckpointTime = now


\* C28: two consecutive human checkpoint dispatches are at least
\* humanDebounceMs apart: a human checkpoint is dispatched only by the
\* callback of the scheduled timer, at or after its due time, when no
\* human checkpoint was dispatched less than humanDebounceMs before; and a
\* timer is armed, due humanDebounceMs later, only in a step that leaves no
\* other timer scheduled, so after the previous one fired or was cancelled.
C28_HumanDispatchesApart ==
    [][ /\ HumanCalls(last'.calls) # {} =>
               /\ recentHumanDispatch = 0
               /\ recentHumanDispatch' = now
               /\ last'.op = "timerFire"
               /\ \E t \in scheduled : now >= t.due /\ scheduled' = {}
        /\ \A t \in scheduled' \ scheduled :
               /\ scheduled' = {t}
               /\ t.due = now + humanDebounceMs
        /\ recentHumanDispatch' # 0 =>
               now' - recentHumanDispatch' < humanDebounceMs
      ]_vars

\* the second of two human checkpoints dispatched humanDebounceMs apart:
\* the first has succeeded, the second has just been dispatched
C28_Witness ==
    /\ last.op = "timerFire" /\ HumanCalls(last.calls) # {}
    /\ humanCheckpointCount = 1 /\ inflight["human"] = 1
    /\ now - StartNow = 2 * humanDebounceMs
    /\ recentHumanDispatch = now


\* C29: after a pulse pendingHumanTimeout is null in every case, and only
\* a file change sets it again; a pulse that finds it null dispatches
\* nothing and changes nothing but lastAiSignalTime.  So of a burst of
\* pulses with no file change in between only the first can dispatch, and
\* it dispatches at most one agent checkpoint.
C29_PulseBurstDispatchesOnce ==
    [][ /\ last'.op = "signalAiActivity" =>
               /\ pendingHumanTimeout' = NULL
               /\ Len(last'.calls) <= 1
               /\ HumanCalls(last'.calls) = {}
        /\ (last'.op = "signalAiActivity" /\ pendingHumanTimeout = NULL) =>
               /\ last'.calls = NoCall
               /\ UNCHANGED <<lastAiCheckpointTime, pendingFile, scheduled,
                              inflight>>
        /\ (last.op = "signalAiActivity" /\ last'.op = "signalAiActivity") =>
               last'.calls = NoCall
        /\ (pendingHumanTimeout = NULL /\ pendingHumanTimeout' # NULL) =>
               /\ last'.op = "handleFileChange"
               /\ last'.route \in {"human-armed", "human-restart"}
      ]_vars

\* the second pulse of a burst, in the instant in which the first one
\* dispatched the agent checkpoint
C29_Witness ==
    /\ IsPulse /\ last.route = "none" /\ last.calls = NoCall
    /\ lastAgentDispatch = now /\ lastAiCheckpointTime = now
    /\ lastAiSignalTime = now
    /\ inflight["agent"] = 1 /\ aiCheckpointCount = 0
    /\ pendingHumanTimeout = NULL /\ now = StartNow


\* C30 (timestamps move forward, one writer each): lastAiSignalTime is
\* changed only by a pulse, lastAiCheckpointTime only by an agent
\* checkpoint request that passes the throttle, each to the current time;
\* neither ever decreases; the callback of the timer, the completion of an
\* invocation, a throttle-dropped agent request and a human request
\* (dropped by the grace period or not) leave lastAiCheckpointTime
\* unchanged.
C30_TimestampsSingleWriter ==
    [][ /\ lastAiSignalTime' # lastAiSignalTime =>
               /\ last'.op = "signalAiActivity"
               /\ lastAiSignalTime' = now
        /\ last'.op = "signalAiActivity" => lastAiSignalTime' = now
        /\ lastAiCheckpointTime' # lastAiCheckpointTime =>
               /\ \/ (last'.op = "handleFileChange" /\ last'.route = "agent")
                  \/ (last'.op = "signalAiActivity" /\ last'.route # "none")
               /\ ~last'.throttled
               /\ lastAiCheckpointTime' = now
        /\ lastAiSignalTime' >= lastAiSignalTime
        /\ lastAiCheckpointTime' >= lastAiCheckpointTime
        /\ (\/ last'.op \in {"timerFire", "completeOk", "completeFail"}
            \/ last'.throttled
            \/ last'.route \in HumanRoutes) =>
               lastAiCheckpointTime' = lastAiCheckpointTime
      ]_vars

\* an agent request is throttle-dropped some time after the one that set
\* lastAiCheckpointTime
C30_Witness ==
    /\ last.op = "handleFileChange" /\ last.route = "agent" /\ last.throttled
    /\ lastAgentRequest = now
    /\ lastAiCheckpointTime > 0 /\ lastAiCheckpointTime < now
    /\ lastAiSignalTime <= lastAiCheckpointTime


\* the latest agent request that passed the throttle invoked no executor
LastRequestWasSkipped ==
    lastAiCheckpointTime # 0 /\ lastAgentDispatch < lastAiCheckpointTime

\* C31 (agent request outside the workspace): an agent checkpoint request
\* that passes the throttle for a path in no workspace folder invokes no
\* executor, yet leaves the handle null and no timer scheduled and sets
\* lastAiCheckpointTime = now; when it preempts a timer that was still
\* scheduled, the debounce cycle of that timer ends with no checkpoint at
\* all.  The throttle and the grace period then run from that request as
\* they would after a dispatch: an agent request made less than
\* AI_CHECKPOINT_THROTTLE_MS later is throttle-dropped, and less than
\* AI_GRACE_PERIOD_MS later a human request is dropped without arming a
\* timer and no human checkpoint is dispatched.
C31_OutsideWorkspaceRequest ==
    [][ /\ (IsPassedAgentRequest' /\ getWorkspaceFolder(pendingFile') = NoPath) =>
               /\ last'.calls = NoCall
               /\ inflight' = inflight
               /\ pendingHumanTimeout' = NULL
               /\ scheduled' = {}
               /\ lastAiCheckpointTime' = now
               /\ LastRequestWasSkipped'
               /\ scheduled # {} =>
                      /\ last'.route = "upgrade"
                      /\ cycle'.human = 0 /\ cycle'.agent = 0
        /\ (/\ LastRequestWasSkipped
            /\ now - lastAiCheckpointTime < AI_CHECKPOINT_THROTTLE_MS
            /\ \/ last'.op = "handleFileChange" /\ last'.route = "agent"
               \/ last'.op = "signalAiActivity" /\ last'.route # "none") =>
               /\ last'.throttled
               /\ last'.calls = NoCall
               /\ lastAiCheckpointTime' = lastAiCheckpointTime
        /\ (/\ LastRequestWasSkipped
            /\ now - lastAiCheckpointTime < AI_GRACE_PERIOD_MS) =>
               /\ HumanCalls(last'.calls) = {}
               /\ last'.route \in HumanRoutes =>
                      /\ last'.route = "human-dropped"
                      /\ scheduled' = scheduled
                      /\ pendingHumanTimeout' = pendingHumanTimeout
      ]_vars

\* a pulse preempts the timer armed for a file outside every workspace
\* folder: the timer is gone, nothing was dispatched for the cycle, and the
\* grace period has started
C31_Witness ==
    /\ IsPassedAgentRequest /\ IsPulse /\ last.route = "upgrade"
    /\ pendingFile = <<"out", "x.txt">> /\ cycle.first = <<"out", "x.txt">>
    /\ last.calls = NoCall /\ cycle.human = 0 /\ cycle.agent = 0
    /\ scheduled = {} /\ pendingHumanTimeout = NULL
    /\ lastAiCheckpointTime = now /\ LastRequestWasSkipped


\* C32 (no agent attribution without a pulse): every agent checkpoint is
\* dispatched at a time at which a pulse has been received and
\* now - lastAiSignalTime < AI_SIGNAL_WINDOW_MS: either by a file change
\* inside the window or by the pulse itself, at the time of the pulse;
\* before the first pulse no agent checkpoint is dispatched, runs or is
\* counted, and no request has stamped lastAiCheckpointTime.
C32_NoAgentWithoutPulse ==
    /\ AgentCalls(last.calls) # {} =>
           /\ lastAiSignalTime # 0
           /\ now - lastAiSignalTime < AI_SIGNAL_WINDOW_MS
           /\ \/ IsFileChange /\ last.route = "agent"
              \/ IsPulse /\ last.route # "none" /\ lastAiSignalTime = now
    /\ lastAgentDispatch # 0 =>
           /\ lastAiSignalTime # 0
           /\ lastAgentDispatch >= lastAiSignalTime
                  => lastAgentDispatch - lastAiSignalTime < AI_SIGNAL_WINDOW_MS
    /\ lastAiSignalTime = 0 =>
           /\ dispatched["agent"] = 0
           /\ inflight["agent"] = 0
           /\ aiCheckpointCount = 0
           /\ lastAgentDispatch = 0
           /\ lastAiCheckpointTime = 0

\* a file change dispatches an agent checkpoint well after the pulse but
\* inside its window
C32_Witness ==
    /\ IsFileChange /\ last.route = "agent"
    /\ AgentCalls(last.calls) # {}
    /\ lastAiSignalTime # 0
    /\ now - lastAiSignalTime >= AI_GRACE_PERIOD_MS
    /\ now - lastAiSignalTime < AI_SIGNAL_WINDOW_MS


\* the j-th line of the log
LogLine(j) == split(logs.content)[j]

\* C33 as claimed (each appended region is processed once): whatever the
\* order of the polls, the ends of the reads and the appends, a line
\* appended to the log after tailing started never produces more than one
\* pulse, also when a poll starts while an earlier read is still open.
C33_EachLineOnce ==
    \A j \in 1..Len(pulses) : pulses[j].fresh => pulses[j].n <= 1


\* the part of C33 that holds: a poll that finds the log shorter than the
\* stored size only stores the new size: it opens no read and gives no
\* pulse; and without a second read open at the same time no line gives
\* more than one pulse
C33_ShrinkOnlyResets ==
    [][ (/\ watcher'.ticks = watcher.ticks + 1
         /\ existsSync(logs, watcher.currentLogFile)
         /\ size(logs) < watcher.currentLogSize) =>
            /\ watcher'.currentLogSize = size(logs)
            /\ watcher'.reads = watcher.reads
            /\ UNCHANGED <<pulses, logs, core, last>>
      ]_vars


C35_InstallRoundTrip ==
    install.outcome = "installed" =>
        /\ isShimInstalled(install)
        /\ gitShimExists(install) /\ install.gitOg
        /\ install.config.exists /\ install.config.json
        /\ ~\E bp \in badPaths : startsWith(resolve(install.config.git_path), bp)
        /\ install.version = currentVersion

\* the part of C35 that holds: when installGlobalShim has completed, the
\* git-og wrapper was written, and the git it found has no 'git-og' in its
\* path and does not resolve into a shim directory, isShimInstalled is
\* true; and an activation that finds isShimInstalled true installs
\* nothing: it leaves ~/.git-ai as it is
C35_RoundTripOfPlainInstall ==
    /\ []((/\ install.outcome = "installed"
           /\ install.gitOg
           /\ ~pathIncludes(install.config.git_path, "git-og")
           /\ ~\E bp \in badPaths :
                  startsWith(resolve(install.config.git_path), bp))
              => isShimInstalled(install))
    /\ [][ (isShimInstalled(install) /\ install'.op = "activate") =>
               /\ install'.outcome = "skipped"
               /\ install' = [install EXCEPT !.gitPathSetting = gitShimPath,
                                             !.op = "activate",
                                             !.outcome = "skipped"]
         ]_vars

====
